---- MODULE Spec2Model ----
(***************************************************************************)
(* State-machine model of the packed reference store (class Pack) and of   *)
(* the SV-jump reseeding (class SvJumpsFromSeeds) of the MA aligner.       *)
(*                                                                         *)
(* Strings are sequences of one-character strings, files are sequences of  *)
(* characters (.ann, .amb) or of bytes (.pac).  Sequences are 1-based in   *)
(* the model and 0-based in the code; positions in the pack keep the       *)
(* 0-based numbering of the code.                                          *)
(***************************************************************************)
EXTENDS Integers, Sequences, FiniteSets, TLC

(***************************************************************************)
(* Bounds of the model.                                                    *)
(***************************************************************************)
MaxContigs == 2
\* the sequences (of nucleotide codes, 4 = N) that are appended to the pack
InputSequences ==
    { <<>>, <<1>>, <<0, 4, 4>>, <<4, 1, 3>>, <<2, 4, 0, 4, 1>> }
\* values of time( NULL ), which Pack( ) stores as the member seed
SeedValues == {0, 1}
\* values that rand( ) returns; vAppendSequence uses the last two bits
RandValues == 0 .. 3
\* the number of ambiguous symbols of a pack that is queried
MaxHoleSymbols == 2
\* the length of the intervals that are extracted
MaxExtractLength == 5

VARIABLES
    pack,       \* the Pack object that is built by vAppendSequence
    appended,   \* history: the sequences that vAppendSequence has stored
    res,        \* the outcome of the query that the caller waits for
    files,      \* the files of the collection on the file system
    bAssert,    \* the build keeps the assertions (no NDEBUG)
    seeds,      \* the seeds that SvJumpsFromSeeds is called with
    stack,      \* the calls of makeJumpsByReseedingRecursive in progress
    log,        \* the call that has ended the recursion last, and its jumps
    bDoDummyJumps,  \* SvJumpsFromSeeds::bDoDummyJumps
    pSegments,  \* the segments that execute_helper is called with
    uiMaxAmbiguitySv,   \* SvJumpsFromSeeds::uiMaxAmbiguitySv
    vMaxima,    \* SoCPriorityQueue::vMaxima
    harm,       \* Harmonization::execute: uiNumTries and pSoCs; SoCPriorityQueue::uiSoCIndex
    shared,     \* the members of SvJumpsFromSeeds that all threads work on
    threads,    \* the threads in SvJumpsFromSeeds::execute, each with its read
    nucSeq,     \* a NucSeq object: its buffer and its sizes
    uiLastEnd   \* SoCPriorityQueue::uiLastEnd

packVars == <<pack, appended, files, bAssert>>
svVars == <<seeds, stack, log, bDoDummyJumps>>
alnVars == <<pSegments, uiMaxAmbiguitySv, vMaxima, harm>>
objVars == <<shared, threads, nucSeq, uiLastEnd>>
vars == <<pack, appended, res, files, bAssert, seeds, stack, log, bDoDummyJumps,
          pSegments, uiMaxAmbiguitySv, vMaxima, harm, shared, threads, nucSeq, uiLastEnd>>

(***************************************************************************)
(* Generic helpers.                                                        *)
(***************************************************************************)
Min(a, b) == IF a < b THEN a ELSE b
Max(a, b) == IF a > b THEN a ELSE b
Pow2(n) == 2 ^ n
Back(s) == s[Len(s)]

RECURSIVE SumLengths(_)
SumLengths(descs) ==
    IF descs = <<>> THEN 0
    ELSE Head(descs).uiLengthUnpacked + SumLengths(Tail(descs))

(***************************************************************************)
(* Bit operations on bytes.                                                *)
(***************************************************************************)
RECURSIVE BitOr(_, _)
BitOr(a, b) ==
    IF a = 0 THEN b
    ELSE IF b = 0 THEN a
    ELSE Max(a % 2, b % 2) + 2 * BitOr(a \div 2, b \div 2)

\* ( ~uiPosition & 3UL ) << 1
ShiftOfPos(uiPosition) == (3 - (uiPosition % 4)) * 2

(***************************************************************************)
(* Pack: construction.                                                     *)
(***************************************************************************)
\* Pack::Pack( )
EmptyPack(uiSeed) ==
    [ xVectorOfSequenceDescriptors |-> <<>>,
      xVectorOfHoleDescriptors |-> <<>>,
      xPackedNucSeqs |-> <<>>,
      seed |-> uiSeed,
      uiUnpackedSizeForwardStrand |-> 0 ]

\* a descriptor that ignores the offset it is given
SequenceInPackAtZero(sName, sComment, uiOffsetInPack, length) ==
    [ sName |-> sName,
      sComment |-> IF sComment = <<>> THEN <<"n", "o", "n", "e">> ELSE sComment,
      uiStartOffsetUnpacked |-> 0,
      uiLengthUnpacked |-> length,
      gi |-> 0,
      uiNumberOfHoles |-> 0 ]

\* SequenceInPack::SequenceInPack( sName, sComment, uiOffsetInPack, length )
SequenceInPack(sName, sComment, uiOffsetInPack, length) ==
    [ sName |-> sName,
      sComment |-> IF sComment = <<>> THEN <<"n", "o", "n", "e">> ELSE sComment,
      uiStartOffsetUnpacked |-> uiOffsetInPack,
      uiLengthUnpacked |-> length,
      gi |-> 0,
      uiNumberOfHoles |-> 0 ]

\* a hole that is recorded one position late
HoleDescriptorShifted(offset, xHoleCharacter) ==
    [ offset |-> offset + 1, length |-> 1, xHoleCharacter |-> xHoleCharacter ]

\* a descriptor of a hole that starts with two symbols
HoleDescriptorOfTwo(offset, xHoleCharacter) ==
    [ offset |-> offset, length |-> 2, xHoleCharacter |-> xHoleCharacter ]

\* HoleDescriptor::HoleDescriptor( offset, xHoleCharacter )
HoleDescriptor(offset, xHoleCharacter) ==
    [ offset |-> offset, length |-> 1, xHoleCharacter |-> xHoleCharacter ]

\* Pack::getNucleotideOnPos
getNucleotideOnPos(P, uiPosition) ==
    (P.xPackedNucSeqs[(uiPosition \div 4) + 1] \div Pow2(ShiftOfPos(uiPosition))) % 4

(***************************************************************************)
(* The body of the loop of vAppendSequence for the symbol at index i.      *)
(* st holds the members of the pack that the loop changes and its locals;  *)
(* st.rand holds the values that the calls of rand( ) return, the next one *)
(* first.  The generator of the C library is one state of the process,     *)
(* seeded by every Pack( ) with time( NULL ) and advanced by every caller  *)
(* of rand( ), so its values are not a function of the pack.               *)
(***************************************************************************)
AppendSymbol(st, uiSymbolCodeIn) ==
    LET isHole == uiSymbolCodeIn >= 4
        extend == isHole /\ st.uiPreviousSymbolCode = uiSymbolCodeIn
        holes1 ==
            IF ~isHole THEN st.holes
            ELSE IF extend
                 THEN [st.holes EXCEPT ![Len(st.holes)].length = @ + 1]
                 ELSE Append(st.holes, HoleDescriptor(st.uiOffsetDistance, "N"))
        nHoles1 == IF isHole /\ ~extend THEN st.uiNumberOfHoles + 1 ELSE st.uiNumberOfHoles
        rand1 == IF isHole THEN Tail(st.rand) ELSE st.rand
        \* uiSymbolCode = rand( ) & 3
        uiSymbolCode == IF isHole THEN Head(st.rand) % 4 ELSE uiSymbolCodeIn
        uiShift == ShiftOfPos(st.size)
        bits1 ==
            IF uiShift = 6
            THEN Append(st.bits, (uiSymbolCode * Pow2(uiShift)) % 256)
            ELSE [st.bits EXCEPT ![Len(st.bits)] = BitOr(@, uiSymbolCode * Pow2(uiShift))]
    IN  [ holes |-> holes1,
          bits |-> bits1,
          size |-> st.size + 1,
          uiOffsetDistance |-> st.uiOffsetDistance + 1,
          uiPreviousSymbolCode |-> uiSymbolCodeIn,
          uiNumberOfHoles |-> nHoles1,
          rand |-> rand1 ]

RECURSIVE AppendLoop(_, _, _)
AppendLoop(st, rxSequence, i) ==
    IF i > Len(rxSequence) THEN st
    ELSE AppendLoop(AppendSymbol(st, rxSequence[i]), rxSequence, i + 1)

\* the number of calls of rand( ) that vAppendSequence makes for rxSequence
RECURSIVE NumberOfRandCalls(_)
NumberOfRandCalls(rxSequence) ==
    IF rxSequence = <<>> THEN 0
    ELSE (IF Head(rxSequence) >= 4 THEN 1 ELSE 0) + NumberOfRandCalls(Tail(rxSequence))

\* Pack::vAppendSequence: the pack after the call, when the calls of
\* rand( ) return the values of xRand, and the values that were not used
vAppendSequence(P, xRand, rsName, rsComment, rxSequence) ==
    IF rxSequence = <<>> THEN [pack |-> P, rand |-> xRand, stored |-> FALSE]
    ELSE
    LET descs == P.xVectorOfSequenceDescriptors
        uiOffsetDistance ==
            IF descs = <<>> THEN 0
            ELSE Back(descs).uiStartOffsetUnpacked + Back(descs).uiLengthUnpacked
        st0 == [ holes |-> P.xVectorOfHoleDescriptors,
                 bits |-> P.xPackedNucSeqs,
                 size |-> P.uiUnpackedSizeForwardStrand,
                 uiOffsetDistance |-> uiOffsetDistance,
                 uiPreviousSymbolCode |-> 0,
                 uiNumberOfHoles |-> 0,
                 rand |-> xRand ]
        st == AppendLoop(st0, rxSequence, 1)
        desc == [SequenceInPack(rsName, rsComment, uiOffsetDistance, Len(rxSequence))
                    EXCEPT !.uiNumberOfHoles = st.uiNumberOfHoles]
    IN  [ pack |-> [ P EXCEPT !.xVectorOfSequenceDescriptors = Append(descs, desc),
                              !.xVectorOfHoleDescriptors = st.holes,
                              !.xPackedNucSeqs = st.bits,
                              !.uiUnpackedSizeForwardStrand = st.size ],
          rand |-> st.rand,
          stored |-> TRUE ]

(***************************************************************************)
(* Pack: addressing.                                                       *)
(***************************************************************************)
uiUnpackedSizeForwardPlusReverse(P) == P.uiUnpackedSizeForwardStrand * 2
uiStartOfReverseStrand(P) == P.uiUnpackedSizeForwardStrand

\* the parameter is a uint64_t: a negative argument wraps to a value above
\* every position of the pack
bPositionIsOnReversStrand(P, uiPosition) ==
    uiPosition < 0 \/ uiPosition >= uiStartOfReverseStrand(P)

\* Pack::iAbsolutePosition( uiPosition ); the result is an int64_t, so the
\* position 2 * forward length maps to -1
iAbsolutePosition(P, uiPosition) ==
    IF bPositionIsOnReversStrand(P, uiPosition)
    THEN uiUnpackedSizeForwardPlusReverse(P) - (uiPosition + 1)
    ELSE uiPosition

uiPositionToReverseStrand(P, uiPositionOnForwardStrand) ==
    uiUnpackedSizeForwardPlusReverse(P) - (uiPositionOnForwardStrand + 1)

startOfSequenceWithId(P, iSequenceId) ==
    P.xVectorOfSequenceDescriptors[iSequenceId + 1].uiStartOffsetUnpacked

lengthOfSequenceWithId(P, iSequenceId) ==
    P.xVectorOfSequenceDescriptors[iSequenceId + 1].uiLengthUnpacked

endOfSequenceWithId(P, iSequenceId) ==
    startOfSequenceWithId(P, iSequenceId) + lengthOfSequenceWithId(P, iSequenceId)

(***************************************************************************)
(* The binary search of uiSequenceIdForPosition.  One call of BinarySearch *)
(* is one test of the loop condition; fuel counts the iterations that are  *)
(* left, and -1 is returned when the loop has not ended after fuel rounds. *)
(***************************************************************************)
RECURSIVE BinarySearch(_, _, _, _, _, _)
BinarySearch(P, iAbsPosition, uiLeft, uiMid, uiRight, fuel) ==
    LET n == Len(P.xVectorOfSequenceDescriptors)
        mid == (uiLeft + uiRight) \div 2
    IN  IF ~(uiLeft < uiRight) THEN uiMid
        ELSE IF fuel = 0 THEN -1
        ELSE IF iAbsPosition >= startOfSequenceWithId(P, mid)
        THEN IF mid = n - 1 THEN mid
             ELSE IF iAbsPosition < startOfSequenceWithId(P, mid + 1) THEN mid
             ELSE BinarySearch(P, iAbsPosition, mid + 1, mid, uiRight, fuel - 1)
        ELSE BinarySearch(P, iAbsPosition, uiLeft, mid, mid, fuel - 1)

uiSequenceIdForPosition(P, uiPosition) ==
    BinarySearch(P, iAbsolutePosition(P, uiPosition), 0, 0,
                 Len(P.xVectorOfSequenceDescriptors),
                 Len(P.xVectorOfSequenceDescriptors) + 1)

\* an id that does not tell the strands apart
uiSequenceIdForPositionNoStrand(P, uiPosition) ==
    uiSequenceIdForPosition(P, uiPosition) * 2

\* Pack::uiSequenceIdForPositionOrRev
uiSequenceIdForPositionOrRev(P, uiPosition) ==
    IF bPositionIsOnReversStrand(P, uiPosition)
    THEN uiSequenceIdForPosition(P, uiPositionToReverseStrand(P, uiPosition)) * 2 + 1
    ELSE uiSequenceIdForPosition(P, uiPosition) * 2

(***************************************************************************)
(* Pack: extraction.  An extraction yields a status and, when the status   *)
(* is "ok", the extracted sequence; the other statuses are the exceptions  *)
(* that the code throws.                                                   *)
(***************************************************************************)
\* vRangeCheckAndThrowExclusive( 0, val, hi ) does not throw
InRangeExclusive(lo, val, hi) == lo <= val /\ val < hi
\* vRangeCheckAndThrowInclusive( 0, val, hi ) does not throw
InRangeInclusive(lo, val, hi) == lo <= val /\ val <= hi

\* checks that report an interval over both strands as out of range
ExtractionStatusNoBridgingCheck(uiForw, iBegin, iEnd) ==
    IF ~InRangeExclusive(0, iBegin, uiForw) THEN "out_of_range"
    ELSE IF ~InRangeInclusive(0, iEnd, uiForw) THEN "out_of_range"
    ELSE IF ~(iBegin <= iEnd) THEN "begin_greater_end"
    ELSE "ok"

\* the checks that vExtractSubsection and vExtractSubsectionN make, in the
\* order of the code, for a pack of forward length uiForw
ExtractionStatus(uiForw, iBegin, iEnd) ==
    IF ~InRangeExclusive(0, iBegin, 2 * uiForw) THEN "out_of_range"
    ELSE IF ~InRangeInclusive(0, iEnd, 2 * uiForw) THEN "out_of_range"
    ELSE IF (iBegin < 0 \/ iBegin >= uiForw) # (iEnd - 1 < 0 \/ iEnd - 1 >= uiForw)
         THEN "bridging"
    ELSE IF ~(iBegin <= iEnd) THEN "begin_greater_end"
    ELSE "ok"

\* a complement that leaves the nucleotide as it is
ComplementIdentity(uiNucleotide) == uiNucleotide

\* 3 - nucleotide: the complement of a nucleotide code
Complement(uiNucleotide) == 3 - uiNucleotide

RECURSIVE ExtractForward(_, _, _)
ExtractForward(P, iPosition, iEnd) ==
    IF ~(iPosition < iEnd) THEN <<>>
    ELSE <<getNucleotideOnPos(P, iPosition)>> \o ExtractForward(P, iPosition + 1, iEnd)

RECURSIVE ExtractReverse(_, _, _)
ExtractReverse(P, iPosition, iAbsoluteEnd) ==
    IF ~(iPosition > iAbsoluteEnd) THEN <<>>
    ELSE <<Complement(getNucleotideOnPos(P, iPosition))>> \o ExtractReverse(P, iPosition - 1, iAbsoluteEnd)

\* Pack::vExtractSubsection with bAppend = false
vExtractSubsection(P, iBegin, iEnd) ==
    LET status == ExtractionStatus(P.uiUnpackedSizeForwardStrand, iBegin, iEnd)
    IN  IF status # "ok" THEN [status |-> status, seq |-> <<>>]
        ELSE IF ~bPositionIsOnReversStrand(P, iBegin)
        THEN [status |-> "ok", seq |-> ExtractForward(P, iBegin, iEnd)]
        ELSE [status |-> "ok",
              seq |-> ExtractReverse(P, iAbsolutePosition(P, iBegin), iAbsolutePosition(P, iEnd))]

\* std::lower_bound over the holes with the predicate offset + length <= pos:
\* the index of the first hole that ends behind pos
RECURSIVE LowerBoundForward(_, _, _)
LowerBoundForward(holes, it, iPosition) ==
    IF it > Len(holes) THEN it
    ELSE IF holes[it].offset + holes[it].length <= iPosition
         THEN LowerBoundForward(holes, it + 1, iPosition)
         ELSE it

\* the forward loop of vExtractSubsectionN; it is the hole iterator
RECURSIVE ExtractForwardN(_, _, _, _)
ExtractForwardN(P, iPosition, iEnd, itHolesDesc) ==
    LET holes == P.xVectorOfHoleDescriptors
        it == LowerBoundForward(holes, itHolesDesc, iPosition)
        sym == IF it <= Len(holes) /\ holes[it].offset <= iPosition
               THEN 4
               ELSE getNucleotideOnPos(P, iPosition)
    IN  IF ~(iPosition < iEnd) THEN <<>>
        ELSE <<sym>> \o ExtractForwardN(P, iPosition + 1, iEnd, it)

\* the holes are visited from the last to the first; the iterator it stands
\* for the hole of index it, and 0 is rend( )
RECURSIVE LowerBoundReverse(_, _, _)
LowerBoundReverse(holes, it, iPosition) ==
    IF it < 1 THEN it
    ELSE IF holes[it].offset > iPosition
         THEN LowerBoundReverse(holes, it - 1, iPosition)
         ELSE it

\* the reverse loop of vExtractSubsectionN
RECURSIVE ExtractReverseN(_, _, _, _)
ExtractReverseN(P, iPosition, iAbsoluteEnd, itHolesDesc) ==
    LET holes == P.xVectorOfHoleDescriptors
        it == LowerBoundReverse(holes, itHolesDesc, iPosition)
        sym == IF it >= 1 /\ holes[it].offset + holes[it].length > iPosition
               THEN 4
               ELSE Complement(getNucleotideOnPos(P, iPosition))
    IN  IF ~(iPosition > iAbsoluteEnd) THEN <<>>
        ELSE <<sym>> \o ExtractReverseN(P, iPosition - 1, iAbsoluteEnd, it)

\* Pack::vExtractSubsectionN with bAppend = false
vExtractSubsectionN(P, iBegin, iEnd) ==
    LET status == ExtractionStatus(P.uiUnpackedSizeForwardStrand, iBegin, iEnd)
        holes == P.xVectorOfHoleDescriptors
    IN  IF iBegin = iEnd THEN [status |-> "ok", seq |-> <<>>]
        ELSE IF status # "ok" THEN [status |-> status, seq |-> <<>>]
        ELSE IF ~bPositionIsOnReversStrand(P, iBegin)
        THEN [status |-> "ok",
              seq |-> ExtractForwardN(P, iBegin, iEnd, LowerBoundForward(holes, 1, iBegin))]
        ELSE [status |-> "ok",
              seq |-> ExtractReverseN(P, iAbsolutePosition(P, iBegin), iAbsolutePosition(P, iEnd),
                                      LowerBoundReverse(holes, Len(holes), iAbsolutePosition(P, iBegin)))]

(***************************************************************************)
(* Text streams.  A stream is the content of the file, the index of the    *)
(* next character and the fail and eof bits.  Every extraction from a      *)
(* stream whose fail bit is set does nothing.  The numbers of the model    *)
(* are integers: a negative value of an unsigned variable stands for the   *)
(* value that the negation wraps to (-1 for 2^64 - 1 in a uint64_t).       *)
(***************************************************************************)
Digits == <<"0", "1", "2", "3", "4", "5", "6", "7", "8", "9">>
IsDigit(c) == \E d \in 1..10 : Digits[d] = c
DigitValue(c) == (CHOOSE d \in 1..10 : Digits[d] = c) - 1
IsSpace(c) == c \in {" ", "\n", "\t", "\r"}

\* operator<< for an unsigned integer: its decimal digits
RECURSIVE FormatUnsigned(_)
FormatUnsigned(n) ==
    IF n < 10 THEN <<Digits[n + 1]>>
    ELSE FormatUnsigned(n \div 10) \o <<Digits[(n % 10) + 1]>>

\* operator<< for an int32_t: a minus sign in front of the digits of a
\* negative number
FormatSigned(n) ==
    IF n < 0 THEN <<"-">> \o FormatUnsigned(0 - n) ELSE FormatUnsigned(n)

\* a < b for two unsigned variables
UnsignedLess(a, b) == IF (a < 0) = (b < 0) THEN a < b ELSE b < 0

\* std::ifstream( file )
OpenStream(data) == [data |-> data, pos |-> 1, fail |-> FALSE, eof |-> FALSE]

\* the index of the first character at or behind pos that is no white space
RECURSIVE SkipWhitespace(_, _)
SkipWhitespace(data, pos) ==
    IF pos <= Len(data) /\ IsSpace(data[pos]) THEN SkipWhitespace(data, pos + 1) ELSE pos

\* the index of the first character at or behind pos that is no digit
RECURSIVE SkipDigits(_, _)
SkipDigits(data, pos) ==
    IF pos <= Len(data) /\ IsDigit(data[pos]) THEN SkipDigits(data, pos + 1) ELSE pos

\* the index of the first white space at or behind pos
RECURSIVE SkipToken(_, _)
SkipToken(data, pos) ==
    IF pos <= Len(data) /\ ~IsSpace(data[pos]) THEN SkipToken(data, pos + 1) ELSE pos

\* the index of the first line feed at or behind pos
RECURSIVE SkipLine(_, _)
SkipLine(data, pos) ==
    IF pos <= Len(data) /\ data[pos] # "\n" THEN SkipLine(data, pos + 1) ELSE pos

\* the number that a sequence of digits denotes
RECURSIVE ParseUnsigned(_)
ParseUnsigned(digits) ==
    IF digits = <<>> THEN 0
    ELSE 10 * ParseUnsigned(SubSeq(digits, 1, Len(digits) - 1)) + DigitValue(Back(digits))

\* the end of operator>> for an unsigned integer: the stream s has skipped
\* the white space up to the index p; the digits begin at the index d, which
\* is behind the sign if there is one, and end before the index q.  The
\* number behind a minus sign is negated in the type of the variable;
\* without a digit the variable becomes 0.
ReadDigits(s, p, d, q) ==
    IF q = d
    THEN [stream |-> [s EXCEPT !.pos = d, !.fail = TRUE, !.eof = d > Len(s.data)],
          value |-> 0]
    ELSE [stream |-> [s EXCEPT !.pos = q, !.eof = q > Len(s.data)],
          value |-> IF s.data[p] = "-"
                    THEN 0 - ParseUnsigned(SubSeq(s.data, d, q - 1))
                    ELSE ParseUnsigned(SubSeq(s.data, d, q - 1))]

\* the index of the first digit of a number that begins at the index p
SkipSign(data, p) == IF data[p] \in {"+", "-"} THEN p + 1 ELSE p

\* operator>> for an unsigned integer behind the white space, at the index p
ReadNumber(s, uiOld, p) ==
    IF p > Len(s.data)
    THEN [stream |-> [s EXCEPT !.pos = p, !.fail = TRUE, !.eof = TRUE], value |-> uiOld]
    ELSE ReadDigits(s, p, SkipSign(s.data, p), SkipDigits(s.data, SkipSign(s.data, p)))

\* operator>> for an unsigned integer into a variable that holds uiOld.
\* The stream skips the white space; when it is at its end then, the
\* variable keeps its value.  A sign may stand in front of the digits.
ReadUnsigned(s, uiOld) ==
    IF s.fail THEN [stream |-> s, value |-> uiOld]
    ELSE ReadNumber(s, uiOld, SkipWhitespace(s.data, s.pos))

\* operator>> for an int32_t into a variable that holds iOld: the digits
\* and the sign are read as for an unsigned integer, the number behind a
\* minus sign is the negative number
ReadSigned(s, iOld) == ReadUnsigned(s, iOld)

\* operator>> for a std::string
ReadToken(s) ==
    LET p == SkipWhitespace(s.data, s.pos)
        q == SkipToken(s.data, p)
    IN  IF s.fail THEN [stream |-> s, value |-> <<>>]
        ELSE IF p > Len(s.data)
        THEN [stream |-> [s EXCEPT !.pos = p, !.fail = TRUE, !.eof = TRUE], value |-> <<>>]
        ELSE [stream |-> [s EXCEPT !.pos = q, !.eof = q > Len(s.data)],
              value |-> SubSeq(s.data, p, q - 1)]

\* operator>> for a char
ReadCharacter(s) ==
    LET p == SkipWhitespace(s.data, s.pos)
    IN  IF s.fail THEN [stream |-> s, value |-> ""]
        ELSE IF p > Len(s.data)
        THEN [stream |-> [s EXCEPT !.pos = p, !.fail = TRUE, !.eof = TRUE], value |-> ""]
        ELSE [stream |-> [s EXCEPT !.pos = p + 1], value |-> s.data[p]]

\* std::getline: the characters up to the next line feed, which is taken
\* from the stream but is no part of the line
GetLine(s) ==
    LET q == SkipLine(s.data, s.pos)
    IN  IF s.fail THEN [stream |-> s, value |-> <<>>]
        ELSE IF q > Len(s.data)
        THEN [stream |-> [s EXCEPT !.pos = q, !.eof = TRUE, !.fail = (q = s.pos)],
              value |-> SubSeq(s.data, s.pos, q - 1)]
        ELSE [stream |-> [s EXCEPT !.pos = q + 1], value |-> SubSeq(s.data, s.pos, q - 1)]

(***************************************************************************)
(* Pack: the files of a collection.  The files of a prefix are a record    *)
(* of the text of the .ann and the .amb file and of the bytes of the .pac  *)
(* file; exists tells whether all three files exist.                       *)
(***************************************************************************)
NoFiles == [exists |-> FALSE]

\* Pack::vStorePack: the bytes of the .pac file
vStorePack(rxPackedSequences, uiUnpackedSize) ==
    rxPackedSequences
        \o (IF uiUnpackedSize % 4 = 0 THEN <<0>> ELSE <<>>)
        \o <<uiUnpackedSize % 4>>

\* std::vector<uint8_t>::resize: the first n bytes, zero bytes where there
\* were none
ResizedBytes(xBytes, n) ==
    [i \in 1..n |-> IF i <= Len(xBytes) THEN xBytes[i] ELSE 0]

\* the loop of Pack::vCreateAndStorePackForBWTProcessing: the complement of
\* the symbol at iForwardPosition is ORed into the bits of iReversePosition
RECURSIVE AppendReverseStrand(_, _, _)
AppendReverseStrand(xPackedSequence, iForwardPosition, iReversePosition) ==
    IF iForwardPosition < 0 THEN xPackedSequence
    ELSE LET uiValue == (xPackedSequence[(iForwardPosition \div 4) + 1]
                            \div Pow2(ShiftOfPos(iForwardPosition))) % 4
             k == (iReversePosition \div 4) + 1
         IN  AppendReverseStrand(
                 [xPackedSequence EXCEPT
                     ![k] = BitOr(@, (3 - uiValue) * Pow2(ShiftOfPos(iReversePosition)))],
                 iForwardPosition - 1, iReversePosition + 1)

\* Pack::vCreateAndStorePackForBWTProcessing: the bytes of the .pac file
\* that the call writes, the forward strand followed by its reverse
\* complement
vCreateAndStorePackForBWTProcessing(P) ==
    LET uiRequiredSize == ((2 * P.uiUnpackedSizeForwardStrand) + 3) \div 4
    IN  vStorePack(AppendReverseStrand(ResizedBytes(P.xPackedNucSeqs, uiRequiredSize),
                                       P.uiUnpackedSizeForwardStrand - 1,
                                       P.uiUnpackedSizeForwardStrand),
                   2 * P.uiUnpackedSizeForwardStrand)

\* the two lines of a sequence descriptor in the .ann file
RECURSIVE StoreSequenceDescriptors(_)
StoreSequenceDescriptors(descs) ==
    IF descs = <<>> THEN <<>>
    ELSE LET rxEntry == Head(descs)
         IN  FormatUnsigned(rxEntry.gi) \o <<" ">> \o rxEntry.sName \o <<" ">>
                 \o rxEntry.sComment \o <<"\n">>
                 \o FormatUnsigned(rxEntry.uiStartOffsetUnpacked) \o <<" ">>
                 \o FormatUnsigned(rxEntry.uiLengthUnpacked) \o <<" ">>
                 \o FormatSigned(rxEntry.uiNumberOfHoles) \o <<"\n">>
                 \o StoreSequenceDescriptors(Tail(descs))

\* the line of a hole descriptor in the .amb file
RECURSIVE StoreHoleDescriptors(_)
StoreHoleDescriptors(holes) ==
    IF holes = <<>> THEN <<>>
    ELSE LET rxEntry == Head(holes)
         IN  FormatUnsigned(rxEntry.offset) \o <<" ">>
                 \o FormatSigned(rxEntry.length) \o <<" ">>
                 \o <<rxEntry.xHoleCharacter, "\n">>
                 \o StoreHoleDescriptors(Tail(holes))

\* Pack::vStoreCollectionDescripton: the text of the .ann file
StoreAnn(P) ==
    FormatUnsigned(P.uiUnpackedSizeForwardStrand) \o <<" ">>
        \o FormatUnsigned(Len(P.xVectorOfSequenceDescriptors)) \o <<" ">>
        \o FormatUnsigned(P.seed) \o <<"\n">>
        \o StoreSequenceDescriptors(P.xVectorOfSequenceDescriptors)

\* Pack::vStoreCollectionDescripton: the text of the .amb file
StoreAmb(P) ==
    FormatUnsigned(P.uiUnpackedSizeForwardStrand) \o <<" ">>
        \o FormatUnsigned(Len(P.xVectorOfSequenceDescriptors)) \o <<" ">>
        \o FormatUnsigned(Len(P.xVectorOfHoleDescriptors)) \o <<"\n">>
        \o StoreHoleDescriptors(P.xVectorOfHoleDescriptors)

\* Pack::vStoreCollection: the files that the call writes
vStoreCollection(P) ==
    [ exists |-> TRUE,
      pac |-> vStorePack(P.xPackedNucSeqs, P.uiUnpackedSizeForwardStrand),
      ann |-> StoreAnn(P),
      amb |-> StoreAmb(P) ]

\* the loop of vLoadSequenceDescriptorVector: reads descriptors until the
\* stream fails and appends them to descs.  The fields of rxEntry have no
\* value before they are read; an entry with a field that was not read is
\* not appended.
RECURSIVE LoadSequenceDescriptors(_, _)
LoadSequenceDescriptors(s, descs) ==
    LET gi == ReadUnsigned(s, 0)
        sName == ReadToken(gi.stream)
        sComment == GetLine(sName.stream)
        uiStartOffsetUnpacked == ReadUnsigned(sComment.stream, 0)
        uiLengthUnpacked == ReadUnsigned(uiStartOffsetUnpacked.stream, 0)
        uiNumberOfHoles == ReadSigned(uiLengthUnpacked.stream, 0)
        rxEntry == [ sName |-> sName.value,
                     sComment |-> sComment.value,
                     uiStartOffsetUnpacked |-> uiStartOffsetUnpacked.value,
                     uiLengthUnpacked |-> uiLengthUnpacked.value,
                     gi |-> gi.value,
                     uiNumberOfHoles |-> uiNumberOfHoles.value ]
    IN  IF uiNumberOfHoles.stream.fail
        THEN [stream |-> uiNumberOfHoles.stream, descs |-> descs]
        ELSE LoadSequenceDescriptors(uiNumberOfHoles.stream, Append(descs, rxEntry))

\* Pack::vLoadSequenceDescriptorVector of the pack P on the text of the
\* .ann file: the header is read into the members of P and into a local
\* variable that is 0, the descriptors are appended to those of P
vLoadSequenceDescriptorVector(P, ann) ==
    LET uiUnpackedSizeForwardStrand ==
            ReadUnsigned(OpenStream(ann), P.uiUnpackedSizeForwardStrand)
        uiExpectedVectorSize == ReadUnsigned(uiUnpackedSizeForwardStrand.stream, 0)
        seed == ReadUnsigned(uiExpectedVectorSize.stream, P.seed)
        loop == LoadSequenceDescriptors(seed.stream, P.xVectorOfSequenceDescriptors)
    IN  [ ok |-> ~(~loop.stream.eof \/ uiExpectedVectorSize.value # Len(loop.descs)),
          uiUnpackedSizeForwardStrand |-> uiUnpackedSizeForwardStrand.value,
          seed |-> seed.value,
          descs |-> loop.descs ]

\* Pack::vLoadPackedSequence on the bytes of the .pac file
vLoadPackedSequence(pac, uiUnpackedSize) ==
    LET bZeroByteInjection == uiUnpackedSize % 4 = 0
        uiSize == Len(pac) - (1 + (IF bZeroByteInjection THEN 1 ELSE 0))
        bytes == SubSeq(pac, 1, uiSize)
        expected == (uiUnpackedSize \div 4) + (IF uiUnpackedSize % 4 = 0 THEN 0 ELSE 1)
        \* no file has the size of a number that has wrapped
        bWrapped == uiUnpackedSize < 0
    IN  IF uiSize < 0 THEN [ok |-> FALSE, bytes |-> <<>>]
        ELSE IF bZeroByteInjection /\ pac[uiSize + 1] # 0 THEN [ok |-> FALSE, bytes |-> <<>>]
        ELSE IF pac[Len(pac)] # uiUnpackedSize % 4 THEN [ok |-> FALSE, bytes |-> <<>>]
        ELSE IF bWrapped \/ expected # Len(bytes) THEN [ok |-> FALSE, bytes |-> <<>>]
        ELSE [ok |-> TRUE, bytes |-> bytes]

\* the loop of vLoadHoleDescriptorVector: reads holes until the stream
\* fails and appends them to holes
RECURSIVE LoadHoleDescriptors(_, _)
LoadHoleDescriptors(s, holes) ==
    LET offset == ReadUnsigned(s, 0)
        length == ReadSigned(offset.stream, 0)
        xHoleCharacter == ReadCharacter(length.stream)
        rxEntry == [ offset |-> offset.value, length |-> length.value,
                     xHoleCharacter |-> xHoleCharacter.value ]
    IN  IF xHoleCharacter.stream.fail
        THEN [stream |-> xHoleCharacter.stream, holes |-> holes]
        ELSE LoadHoleDescriptors(xHoleCharacter.stream, Append(holes, rxEntry))

\* Pack::vLoadHoleDescriptorVector of the pack P on the text of the .amb
\* file: the header is read into local variables, of which only the number
\* of holes, which is 0 before, is used; the holes are appended to those
\* of P
vLoadHoleDescriptorVector(P, amb) ==
    LET uiSizeOfSingleStrand == ReadUnsigned(OpenStream(amb), 0)
        uiExpectedSequenceDescriptorVectorSize ==
            ReadUnsigned(uiSizeOfSingleStrand.stream, 0)
        uiExpectedHoleDescriptorVectorSize ==
            ReadUnsigned(uiExpectedSequenceDescriptorVectorSize.stream, 0)
        loop == LoadHoleDescriptors(uiExpectedHoleDescriptorVectorSize.stream,
                                    P.xVectorOfHoleDescriptors)
    IN  [ ok |-> ~(~loop.stream.eof
                     \/ uiExpectedHoleDescriptorVectorSize.value # Len(loop.holes)),
          holes |-> loop.holes ]

\* Pack::debugCheckSequenceDescriptorVector: TRUE iff no assertion of the
\* method fails
RECURSIVE DescriptorChainHolds(_, _, _)
DescriptorChainHolds(descs, uiRunningStartOffsetUnpacked, uiForw) ==
    IF descs = <<>> THEN uiRunningStartOffsetUnpacked = uiForw
    ELSE /\ UnsignedLess(uiRunningStartOffsetUnpacked, uiForw)
         /\ Head(descs).uiStartOffsetUnpacked = uiRunningStartOffsetUnpacked
         /\ DescriptorChainHolds(Tail(descs),
                uiRunningStartOffsetUnpacked + Head(descs).uiLengthUnpacked, uiForw)

debugCheckSequenceDescriptorVector(P) ==
    DescriptorChainHolds(P.xVectorOfSequenceDescriptors, 0, P.uiUnpackedSizeForwardStrand)

\* what the caller has of the pack when the load has failed
NoPack == [loaded |-> FALSE]

\* Pack::vLoadCollection of the pack P0 on the files fs.  The status is
\* "ok", "exception" (a std::runtime_error leaves the call) or "abort" (an
\* assertion fails; bAssertions tells whether the build keeps the assertions).
vLoadCollection(P0, fs, bAssertions) ==
    LET ann == vLoadSequenceDescriptorVector(P0, fs.ann)
        pac == vLoadPackedSequence(fs.pac, ann.uiUnpackedSizeForwardStrand)
        amb == vLoadHoleDescriptorVector(P0, fs.amb)
        P == [ xVectorOfSequenceDescriptors |-> ann.descs,
               xVectorOfHoleDescriptors |-> amb.holes,
               xPackedNucSeqs |-> pac.bytes,
               seed |-> ann.seed,
               uiUnpackedSizeForwardStrand |-> ann.uiUnpackedSizeForwardStrand ]
    IN  IF ~fs.exists THEN [status |-> "exception", pack |-> NoPack]
        ELSE IF ~ann.ok THEN [status |-> "exception", pack |-> NoPack]
        ELSE IF ~pac.ok THEN [status |-> "exception", pack |-> NoPack]
        ELSE IF ~amb.ok THEN [status |-> "exception", pack |-> NoPack]
        ELSE IF bAssertions /\ ~debugCheckSequenceDescriptorVector(P)
        THEN [status |-> "abort", pack |-> NoPack]
        ELSE [status |-> "ok", pack |-> P]

(***************************************************************************)
(* Seeds and rectangles.  A seed is an interval on the query (iStart,      *)
(* iSize) with a position on the reference and a strand; a seed of the     *)
(* reverse strand covers the reference positions uiPosOnReference - iSize  *)
(* + 1 .. uiPosOnReference.  The code tells the dummy seed by its address: *)
(* the field bDummy stands for the comparison with &xDummySeed.            *)
(***************************************************************************)
Seed(iStart, iSize, uiPosOnReference, bOnForwStrand) ==
    [ bDummy |-> FALSE, iStart |-> iStart, iSize |-> iSize,
      uiPosOnReference |-> uiPosOnReference, bOnForwStrand |-> bOnForwStrand ]

\* the member xDummySeed as Seed( ) : Interval( ) constructs it: iStart,
\* iSize and uiPosOnReference are 0 by their member initializers;
\* bOnForwStrand has no initializer and holds whatever the memory holds,
\* which is the value given here
ConstructedDummySeed(bOnForwStrand) ==
    [ bDummy |-> TRUE, iStart |-> 0, iSize |-> 0, uiPosOnReference |-> 0,
      bOnForwStrand |-> bOnForwStrand ]

\* the values that the member can have after the construction
DummySeedValues == { ConstructedDummySeed(b) : b \in BOOLEAN }

\* SvJumpsFromSeeds::xDummySeed: the member of the module at work
xDummySeed == shared.xDummySeed

\* Interval::start, Interval::end, Seed::start_ref, Seed::end_ref
start(rSeed) == rSeed.iStart
end(rSeed) == rSeed.iStart + rSeed.iSize
start_ref(rSeed) == rSeed.uiPosOnReference
end_ref(rSeed) == rSeed.uiPosOnReference + rSeed.iSize

\* geom::Rectangle( iStartX, iStartY, iSizeX, iSizeY ): the x axis is the
\* reference, the y axis the query
Rectangle(iStartX, iStartY, iSizeX, iSizeY) ==
    [ xStart |-> iStartX, yStart |-> iStartY, xSize |-> iSizeX, ySize |-> iSizeY ]

EmptyRectangle == Rectangle(0, 0, 0, 0)
EmptyRectangles == <<EmptyRectangle, EmptyRectangle>>

\* ( int64_t )( distance * dExtraSeedingAreaFactor ), cut at iMaxSizeReseed / 2
QueryDistance(uiDistance, iMaxSizeReseed) ==
    Min((3 * uiDistance) \div 2, iMaxSizeReseed \div 2)

\* iLastRef of getPositionsForSeeds
LastRef(P, iMaxSizeReseed, rLast, rNext, uiQStart) ==
    LET iQueryDistance == QueryDistance(start(rNext) - uiQStart, iMaxSizeReseed)
    IN  IF rLast.bDummy
        THEN IF rNext.bOnForwStrand
             THEN Max(startOfSequenceWithId(P, uiSequenceIdForPosition(P, start_ref(rNext))),
                      start_ref(rNext) - iQueryDistance)
             ELSE Min(endOfSequenceWithId(P, uiSequenceIdForPosition(P, start_ref(rNext) + 1)),
                      start_ref(rNext) + 1 + iQueryDistance)
        ELSE IF rLast.bOnForwStrand THEN end_ref(rLast)
        ELSE start_ref(rLast) - rLast.iSize + 1

\* iNextRef of getPositionsForSeeds
NextRef(P, iMaxSizeReseed, rLast, rNext, uiQEnd) ==
    LET iQueryDistance == QueryDistance(uiQEnd - end(rLast), iMaxSizeReseed)
    IN  IF rNext.bDummy
        THEN IF rLast.bOnForwStrand
             THEN Min(endOfSequenceWithId(P, uiSequenceIdForPosition(P, end_ref(rLast))),
                      end_ref(rLast) + iQueryDistance)
             ELSE Max(startOfSequenceWithId(P,
                          uiSequenceIdForPosition(P, start_ref(rLast) + 1 - rLast.iSize)),
                      start_ref(rLast) + 1 - (rLast.iSize + iQueryDistance))
        ELSE IF rNext.bOnForwStrand THEN start_ref(rNext)
        ELSE start_ref(rNext) + 1

\* the checks at the head of getPositionsForSeeds that return empty
\* rectangles
NoAreaBetween(rLast, rNext, uiQStart, uiQEnd) ==
    \/ ~rLast.bDummy /\ ~rNext.bDummy /\ start(rNext) < end(rLast)
    \/ ~rLast.bDummy /\ end(rLast) >= uiQEnd
    \/ ~rNext.bDummy /\ start(rNext) <= uiQStart

\* iRefSize of getPositionsForSeeds for two real seeds
RefSize(rLast, rNext, iLastRef, iNextRef) ==
    IF rLast.bOnForwStrand /\ rNext.bOnForwStrand THEN iNextRef - iLastRef
    ELSE IF ~rLast.bOnForwStrand /\ ~rNext.bOnForwStrand THEN iLastRef - iNextRef
    ELSE -1

\* the condition under that getPositionsForSeeds splits the area of two
\* real seeds in two rectangles
NeedsSplit(P, iMaxSizeReseed, rLast, rNext, iLastRef, iNextRef) ==
    LET iRefSize == RefSize(rLast, rNext, iLastRef, iNextRef)
    IN  \/ iRefSize > iMaxSizeReseed
        \/ iRefSize < 0
        \/ uiSequenceIdForPosition(P, iLastRef) # uiSequenceIdForPosition(P, iNextRef - 1)

\* getPositionsForSeeds without the split: the one rectangle between
\* iLastRef and iNextRef
RectangleBetween(P, iMaxSizeReseed, rLast, rNext, uiQStart, uiQEnd) ==
    LET iLastRef == LastRef(P, iMaxSizeReseed, rLast, rNext, uiQStart)
        iNextRef == NextRef(P, iMaxSizeReseed, rLast, rNext, uiQEnd)
        iRefStart == Min(iLastRef, iNextRef)
        iRefEnd == Max(iLastRef, iNextRef)
        iRectQStart == IF ~rLast.bDummy THEN end(rLast) ELSE uiQStart
        iRectQEnd == IF ~rNext.bDummy THEN start(rNext) ELSE uiQEnd
    IN  Rectangle(iRefStart, iRectQStart, iRefEnd - iRefStart, iRectQEnd - iRectQStart)

\* getPositionsForSeeds with one of the seeds being the dummy seed, as the
\* split calls it
PositionsForDummy(P, iMaxSizeReseed, rLast, rNext, uiQStart, uiQEnd) ==
    IF NoAreaBetween(rLast, rNext, uiQStart, uiQEnd) THEN EmptyRectangles
    ELSE IF LastRef(P, iMaxSizeReseed, rLast, rNext, uiQStart)
                = NextRef(P, iMaxSizeReseed, rLast, rNext, uiQEnd)
    THEN EmptyRectangles
    ELSE <<RectangleBetween(P, iMaxSizeReseed, rLast, rNext, uiQStart, uiQEnd), EmptyRectangle>>

\* SvJumpsFromSeeds::getPositionsForSeeds: the pair of rectangles
getPositionsForSeeds(P, iMaxSizeReseed, rLast, rNext, uiQStart, uiQEnd) ==
    LET iLastRef == LastRef(P, iMaxSizeReseed, rLast, rNext, uiQStart)
        iNextRef == NextRef(P, iMaxSizeReseed, rLast, rNext, uiQEnd)
    IN  IF NoAreaBetween(rLast, rNext, uiQStart, uiQEnd) THEN EmptyRectangles
        ELSE IF iLastRef = iNextRef THEN EmptyRectangles
        ELSE IF /\ ~rLast.bDummy /\ ~rNext.bDummy
                /\ NeedsSplit(P, iMaxSizeReseed, rLast, rNext, iLastRef, iNextRef)
        THEN << PositionsForDummy(P, iMaxSizeReseed, rLast, xDummySeed,
                                  end(rLast), start(rNext))[1],
                PositionsForDummy(P, iMaxSizeReseed, xDummySeed, rNext,
                                  end(rLast), start(rNext))[1] >>
        ELSE <<RectangleBetween(P, iMaxSizeReseed, rLast, rNext, uiQStart, uiQEnd), EmptyRectangle>>

(***************************************************************************)
(* The pack under construction: initial state and operations.              *)
(***************************************************************************)
NoResult == [op |-> "none"]

\* no segments and no queue of strips have been made
NoAlignment ==
    /\ pSegments = <<>>
    /\ uiMaxAmbiguitySv = 0
    /\ vMaxima = <<>>
    /\ harm = [uiNumTries |-> 0, pSoCs |-> <<>>, uiSoCIndex |-> 0]

\* no SvJumpsFromSeeds module has been constructed
NoModule == [sVersion |-> "none"]

\* the members of a SvJumpsFromSeeds module as constructed: the mutex is
\* free, the counters are 0 and the sentinel is default-constructed;
\* xDatabaseLock is the lock of the database that the coverage inserter of
\* the module writes to; sVersion tells which of the two versions of the
\* source file the module is built from
SvJumpsFromSeeds(sVersion, rDummySeed) ==
    [sVersion |-> sVersion,
     xDummySeed |-> rDummySeed,
     xLock |-> 0,
     xDatabaseLock |-> 0,
     uiNumSeedsEliminatedAmbiguityFilter |-> 0,
     uiNumSeedsKeptAmbiguityFilter |-> 0]

\* the modules of the given versions
Modules(sVersions) ==
    { SvJumpsFromSeeds(v, d) : v \in sVersions, d \in DummySeedValues }
NoNucSeq == [pxSequenceRef |-> <<>>, xPointer |-> "NULL", uiSize |-> 0, uxCapacity |-> 0]
\* no module, no thread in execute, the NucSeq is empty and no strip has
\* been offered to the queue
NoObjects ==
    /\ shared = NoModule
    /\ threads = <<>>
    /\ nucSeq = NoNucSeq
    /\ uiLastEnd = 0

NoSvJumpsFromSeeds ==
    /\ seeds = <<>>
    /\ stack = <<>>
    /\ log = <<>>
    /\ bDoDummyJumps = FALSE
    /\ NoAlignment
    /\ NoObjects

Init ==
    /\ \E s \in SeedValues : pack = EmptyPack(s)
    /\ appended = <<>>
    /\ res = NoResult
    /\ files = NoFiles
    /\ bAssert = FALSE
    /\ NoSvJumpsFromSeeds

\* a call of vAppendSequence, directly or by vAppendSequence_boost, which
\* forwards its arguments; every call of rand( ) returns any value.  The
\* number of contigs is bounded by MaxContigs.
AppendSequence(rsName, rsComment, rxSequence) ==
    /\ Len(pack.xVectorOfSequenceDescriptors) < MaxContigs
    /\ UNCHANGED <<files, bAssert, svVars, alnVars, objVars>>
    /\ \E xRand \in [1..NumberOfRandCalls(rxSequence) -> RandValues] :
         LET r == vAppendSequence(pack, xRand, rsName, rsComment, rxSequence)
         IN  /\ pack' = r.pack
             /\ appended' = IF r.stored THEN Append(appended, rxSequence) ELSE appended
    /\ res = NoResult
    /\ res' = NoResult

\* a call of vExtractSubsection
ExtractSubsection(iBegin, iEnd) ==
    /\ res = NoResult
    /\ res' = [op |-> "extract", iBegin |-> iBegin, iEnd |-> iEnd,
               out |-> vExtractSubsection(pack, iBegin, iEnd)]
    /\ UNCHANGED <<pack, appended, files, bAssert, svVars, alnVars, objVars>>

\* a call of vExtractSubsectionN
ExtractSubsectionN(iBegin, iEnd) ==
    /\ res = NoResult
    /\ res' = [op |-> "extractN", iBegin |-> iBegin, iEnd |-> iEnd,
               out |-> vExtractSubsectionN(pack, iBegin, iEnd)]
    /\ UNCHANGED <<pack, appended, files, bAssert, svVars, alnVars, objVars>>

\* a call of uiSequenceIdForPositionOrRev; the code expects a position of
\* the pack
SequenceIdForPositionOrRev(uiPosition) ==
    /\ res = NoResult
    /\ pack.xVectorOfSequenceDescriptors # <<>>
    /\ res' = [op |-> "lookup", uiPosition |-> uiPosition,
               id |-> uiSequenceIdForPositionOrRev(pack, uiPosition)]
    /\ UNCHANGED <<pack, appended, files, bAssert, svVars, alnVars, objVars>>

\* the caller takes the outcome of its query
Return ==
    /\ res # NoResult
    /\ res' = NoResult
    /\ UNCHANGED <<pack, appended, files, bAssert, svVars, alnVars, objVars>>

\* the number of ambiguous symbols in the pack
RECURSIVE HoleSymbols(_)
HoleSymbols(holes) ==
    IF holes = <<>> THEN 0 ELSE Head(holes).length + HoleSymbols(Tail(holes))

\* the sequences that are appended to a pack that is queried
AppendableSequences ==
    { seq \in InputSequences :
        HoleSymbols(pack.xVectorOfHoleDescriptors) + NumberOfRandCalls(seq) <= MaxHoleSymbols }

\* the positions that the queries are made with: those of the pack and one
\* position before and behind them
QueryPositions == -1 .. (uiUnpackedSizeForwardPlusReverse(pack) + 1)

\* the ends that an extraction from iBegin is asked for: one before iBegin,
\* iBegin and the ends of the intervals up to the length MaxExtractLength
QueryEnds(iBegin) ==
    Max(-1, iBegin - 1) ..
        Min(uiUnpackedSizeForwardPlusReverse(pack) + 1, iBegin + MaxExtractLength)

Next ==
    \/ \E seq \in AppendableSequences : AppendSequence(<<"A">>, <<>>, seq)
    \/ \E b \in QueryPositions : \E e \in QueryEnds(b) : ExtractSubsection(b, e)
    \/ \E b \in QueryPositions : \E e \in QueryEnds(b) : ExtractSubsectionN(b, e)
    \/ \E p \in 0 .. (uiUnpackedSizeForwardPlusReverse(pack) - 1) : SequenceIdForPositionOrRev(p)
    \/ Return

Spec == Init /\ [][Next]_vars

\* the appends alone, of every input sequence
NextAppend == \E seq \in InputSequences : AppendSequence(<<"A">>, <<>>, seq)

SpecAppend == Init /\ [][NextAppend]_vars

(***************************************************************************)
(* Properties of the pack.                                                 *)
(***************************************************************************)
Descs == pack.xVectorOfSequenceDescriptors
ForwardLength == pack.uiUnpackedSizeForwardStrand

\* a sequence as the with-N extraction reports it: every ambiguous symbol
\* is the code 4
WithN(seq) == [i \in 1..Len(seq) |-> IF seq[i] >= 4 THEN 4 ELSE seq[i]]

\* the reverse complement of a sequence of the codes 0..3
ReverseComplement(seq) == [i \in 1..Len(seq) |-> 3 - seq[Len(seq) + 1 - i]]

\* C1: the with-N extraction of the interval of a contig,
\* [start of contig, end of contig), succeeds and returns the sequence that
\* was appended for the contig, with A, C, G, T unchanged and every
\* ambiguous symbol as code 4.
C1_ExtractNReturnsAppended ==
    \A i \in 1..Len(Descs) :
        ( /\ res.op = "extractN"
          /\ res.iBegin = startOfSequenceWithId(pack, i - 1)
          /\ res.iEnd = endOfSequenceWithId(pack, i - 1) )
        => /\ res.out.status = "ok"
           /\ res.out.seq = WithN(appended[i])

\* the second contig, which has holes, was extracted with N
C1_Witness ==
    /\ Len(Descs) = 2
    /\ res.op = "extractN"
    /\ res.iBegin = startOfSequenceWithId(pack, 1)
    /\ res.iEnd = endOfSequenceWithId(pack, 1)
    /\ appended[2] = <<2, 4, 0, 4, 1>>
    /\ res.out.seq = <<2, 4, 0, 4, 1>>

\* C3: after any sequence of appends, of which the empty ones are skipped,
\* the first contig starts at 0, every further contig starts where its
\* predecessor ends, the contigs have the lengths of the appended sequences
\* and the lengths sum up to the forward length.
C3_OffsetChain ==
    /\ Len(Descs) = Len(appended)
    /\ \A i \in 1..Len(Descs) :
        /\ Descs[i].uiLengthUnpacked = Len(appended[i])
        /\ Descs[i].uiLengthUnpacked > 0
        /\ i = 1 => Descs[i].uiStartOffsetUnpacked = 0
        /\ i > 1 => Descs[i].uiStartOffsetUnpacked =
                        Descs[i - 1].uiStartOffsetUnpacked + Descs[i - 1].uiLengthUnpacked
    /\ SumLengths(Descs) = ForwardLength

\* two contigs were appended, the second one behind a contig of length 3
C3_Witness ==
    /\ Len(Descs) = 2
    /\ Descs[2].uiStartOffsetUnpacked = 3
    /\ ForwardLength = 8

\* the contigs (0-based) that hold the forward position iAbsPosition
ContigsHolding(iAbsPosition) ==
    { i \in 0..(Len(Descs) - 1) :
        /\ startOfSequenceWithId(pack, i) <= iAbsPosition
        /\ iAbsPosition < endOfSequenceWithId(pack, i) }

\* C4: for every position p in [0, 2F) of a non-empty pack the binary
\* search terminates and returns the one contig i that holds the mirrored
\* position; the strand-aware id is 2i on the forward and 2i+1 on the
\* reverse strand.
C4_SequenceIdForPosition ==
    res.op = "lookup" =>
        LET p == res.uiPosition
            bRev == p >= ForwardLength
            a == IF bRev THEN 2 * ForwardLength - 1 - p ELSE p
        IN  /\ uiSequenceIdForPosition(pack, p) # -1
            /\ ContigsHolding(a) = {uiSequenceIdForPosition(pack, p)}
            /\ res.id = 2 * uiSequenceIdForPosition(pack, p) + (IF bRev THEN 1 ELSE 0)

\* a position of the reverse strand was looked up and lies in the second
\* contig
C4_Witness ==
    /\ res.op = "lookup"
    /\ Len(Descs) = 2
    /\ res.uiPosition >= ForwardLength
    /\ res.id = 3

\* C5: when the raw extraction of [b, e) succeeds, the raw extraction of
\* the mirror interval [2F - e, 2F - b) succeeds too and returns the
\* reverse complement.
C5_MirrorIsReverseComplement ==
    (res.op = "extract" /\ res.out.status = "ok") =>
        LET mirror == vExtractSubsection(pack, 2 * ForwardLength - res.iEnd,
                                         2 * ForwardLength - res.iBegin)
        IN  /\ mirror.status = "ok"
            /\ mirror.seq = ReverseComplement(res.out.seq)

\* a forward interval over a byte border of the pack was extracted
C5_Witness ==
    /\ res.op = "extract"
    /\ res.out.status = "ok"
    /\ res.iBegin = 2
    /\ res.iEnd = 6
    /\ vExtractSubsection(pack, 2 * ForwardLength - 6, 2 * ForwardLength - 2).seq
           # res.out.seq

\* C6: the extraction, raw and with N, of an interval that begins on the
\* forward strand and ends on the reverse strand fails with the bridging
\* error; so does the extraction of [990, 1010) from a pack of forward
\* length 1000.
C6_BridgingFails ==
    /\ ( /\ res.op \in {"extract", "extractN"}
         /\ 0 <= res.iBegin /\ res.iBegin < ForwardLength
         /\ ForwardLength < res.iEnd /\ res.iEnd <= 2 * ForwardLength )
       => res.out.status = "bridging"
    /\ ExtractionStatus(1000, 990, 1010) = "bridging"

\* an interval over the seam was asked for with N
C6_Witness ==
    /\ res.op = "extractN"
    /\ res.iBegin = ForwardLength - 1
    /\ res.iEnd = ForwardLength + 1
    /\ ForwardLength >= 4
    /\ res.out.status = "bridging"

(***************************************************************************)
(* Storing and loading the collection.                                     *)
(***************************************************************************)
\* the names and comments that the contigs are appended with
ContigTitles ==
    { [sName |-> <<"A">>, sComment |-> <<>>],
      [sName |-> <<"c", "2">>, sComment |-> <<"x", " ", "y">>] }

\* the build is the release build (the default, NDEBUG) or the debug build
InitStore ==
    /\ \E s \in SeedValues : pack = EmptyPack(s)
    /\ appended = <<>>
    /\ res = NoResult
    /\ files = NoFiles
    /\ bAssert \in BOOLEAN
    /\ NoSvJumpsFromSeeds

\* a call of vStoreCollection
StoreCollection ==
    /\ res = NoResult
    /\ bAssert => debugCheckSequenceDescriptorVector(pack)
    /\ files' = vStoreCollection(pack)
    /\ UNCHANGED <<pack, appended, res, bAssert, svVars, alnVars, objVars>>

\* a call of vCreateAndStorePackForBWTProcessing with the prefix of the
\* collection: the .pac file is written, the other two files are left alone
CreateAndStorePackForBWTProcessing ==
    /\ res = NoResult
    /\ files' = IF files.exists
                THEN [files EXCEPT !.pac = vCreateAndStorePackForBWTProcessing(pack)]
                ELSE [exists |-> FALSE, pac |-> vCreateAndStorePackForBWTProcessing(pack)]
    /\ UNCHANGED <<pack, appended, res, bAssert, svVars, alnVars, objVars>>

\* the descriptors with the start offset or the length of one of them
\* raised by one
DamagedDescriptors(descs, i, bStart) ==
    IF bStart THEN [descs EXCEPT ![i].uiStartOffsetUnpacked = @ + 1]
    ELSE [descs EXCEPT ![i].uiLengthUnpacked = @ + 1]

\* the .ann file is replaced by one whose descriptor i has another start
\* offset or another length
DamageAnn(i, bStart) ==
    /\ files = vStoreCollection(pack)
    /\ res = NoResult
    /\ i \in 1..Len(pack.xVectorOfSequenceDescriptors)
    /\ files' = [files EXCEPT !.ann =
                    StoreAnn([pack EXCEPT !.xVectorOfSequenceDescriptors =
                                 DamagedDescriptors(@, i, bStart)])]
    /\ UNCHANGED <<pack, appended, res, bAssert, svVars, alnVars, objVars>>

\* the .ann and .amb files are replaced by ones whose header tells another
\* forward length
DamageHeader ==
    /\ files = vStoreCollection(pack)
    /\ res = NoResult
    /\ files' = [files EXCEPT
                    !.ann = StoreAnn([pack EXCEPT !.uiUnpackedSizeForwardStrand = @ + 1]),
                    !.amb = StoreAmb([pack EXCEPT !.uiUnpackedSizeForwardStrand = @ + 1])]
    /\ UNCHANGED <<pack, appended, res, bAssert, svVars, alnVars, objVars>>

\* Pack q; q.vLoadCollection( prefix ): a call of vLoadCollection on a pack
\* that Pack( ) has made
LoadCollection ==
    /\ res = NoResult
    /\ \E s \in SeedValues :
         res' = [op |-> "load", seed |-> s,
                 out |-> vLoadCollection(EmptyPack(s), files, bAssert)]
    /\ UNCHANGED <<pack, appended, files, bAssert, svVars, alnVars, objVars>>

NextStore ==
    \/ \E t \in ContigTitles, seq \in AppendableSequences :
          AppendSequence(t.sName, t.sComment, seq)
    \/ StoreCollection
    \/ CreateAndStorePackForBWTProcessing
    \/ \E i \in 1..MaxContigs, bStart \in BOOLEAN : DamageAnn(i, bStart)
    \/ DamageHeader
    \/ LoadCollection

SpecStore == InitStore /\ [][NextStore]_vars

\* the files are those that vStoreCollection has written for the pack
FilesAsStored == files = vStoreCollection(pack)

\* the two packs agree in the forward length, in every descriptor, in every
\* hole and in the packed bits
SamePack(P, Q) ==
    /\ P.uiUnpackedSizeForwardStrand = Q.uiUnpackedSizeForwardStrand
    /\ P.xVectorOfSequenceDescriptors = Q.xVectorOfSequenceDescriptors
    /\ P.xVectorOfHoleDescriptors = Q.xVectorOfHoleDescriptors
    /\ P.xPackedNucSeqs = Q.xPackedNucSeqs

\* C2: storing a pack and loading the files into a fresh pack succeeds and
\* yields a pack with the same forward length, the same contig descriptors
\* (name, comment, start offset, length, number of holes), the same holes
\* and the same packed bits; storing and loading the loaded pack again
\* changes nothing.
C2_StoreLoadRoundTrip ==
    (res.op = "load" /\ FilesAsStored) =>
        /\ res.out.status = "ok"
        /\ SamePack(res.out.pack, pack)
        /\ \A s \in SeedValues :
              LET again == vLoadCollection(EmptyPack(s), vStoreCollection(res.out.pack),
                                           bAssert)
              IN  again.status = "ok" /\ SamePack(again.pack, res.out.pack)

\* C7: whenever the offset chain of the contigs in the .ann file is
\* inconsistent the load fails: a load that succeeds returns a pack whose
\* chain holds.
C7_LoadRejectsBrokenChain ==
    (res.op = "load" /\ res.out.status = "ok") =>
        debugCheckSequenceDescriptorVector(res.out.pack)

(***************************************************************************)
(* The rectangles of a pair of seeds.                                      *)
(***************************************************************************)
\* the lengths of the contigs of the reference
ContigLengths == <<3, 3>>
QueryLength == 4
MaxSeedSize == 2
\* SvJumpsFromSeeds::iMaxSizeReseed
iMaxSizeReseed == 2

\* the pack of contigs of the given lengths
RECURSIVE PackOfContigs(_)
PackOfContigs(lengths) ==
    IF lengths = <<>> THEN EmptyPack(0)
    ELSE vAppendSequence(PackOfContigs(SubSeq(lengths, 1, Len(lengths) - 1)), <<>>,
                         <<"r">>, <<>>, [i \in 1..Back(lengths) |-> 0]).pack

\* the reference of the reseeding
RefPack == PackOfContigs(ContigLengths)

\* the seeds of a query of length uiQueryLength on the reference P: a seed
\* lies in the query and in one contig
SeedsOn(P, uiQueryLength) ==
    { Seed(q, l, r, f) :
        q \in 0..(uiQueryLength - 1), l \in 1..MaxSeedSize,
        r \in 0..(P.uiUnpackedSizeForwardStrand - 1), f \in BOOLEAN }

SeedIsValid(P, uiQueryLength, rSeed) ==
    LET first == IF rSeed.bOnForwStrand THEN start_ref(rSeed)
                 ELSE start_ref(rSeed) - rSeed.iSize + 1
        last == first + rSeed.iSize - 1
    IN  /\ end(rSeed) <= uiQueryLength
        /\ first >= 0
        /\ last < P.uiUnpackedSizeForwardStrand
        /\ uiSequenceIdForPosition(P, first) = uiSequenceIdForPosition(P, last)

RealSeeds == { rSeed \in SeedsOn(RefPack, QueryLength) : SeedIsValid(RefPack, QueryLength, rSeed) }

\* the pairs that getPositionsForSeeds is called with: the seeds are in
\* the order of their starts on the query, one of them may be the dummy
SeedPairs ==
    { <<a, b>> : a \in RealSeeds, b \in {xDummySeed} } \cup
    { <<a, b>> : a \in {xDummySeed}, b \in RealSeeds } \cup
    { p \in RealSeeds \X RealSeeds : start(p[1]) <= start(p[2]) }

InitRect ==
    /\ shared \in Modules({"part_000"})
    /\ pack = RefPack
    /\ appended = <<>>
    /\ res = NoResult
    /\ files = NoFiles
    /\ bAssert = FALSE
    /\ seeds \in SeedPairs
    /\ stack = <<>>
    /\ log = <<>>
    /\ bDoDummyJumps = FALSE
    /\ NoAlignment
    /\ threads = <<>>
    /\ nucSeq = NoNucSeq
    /\ uiLastEnd = 0

\* a call of getPositionsForSeeds as makeJumpsByReseedingRecursive makes it
PositionsForSeeds ==
    /\ res = NoResult
    /\ res' = [op |-> "rectangles",
               out |-> getPositionsForSeeds(pack, iMaxSizeReseed, seeds[1], seeds[2],
                                            0, QueryLength)]
    /\ UNCHANGED <<packVars, svVars, alnVars, objVars>>

NextRect == PositionsForSeeds

SpecRect == InitRect /\ [][NextRect]_vars

\* the pack, the seeds and the result of the example: contigs that end at
\* 100 and 200, last ends at 95 and next starts at 150 on the reference
ExamplePack ==
    [ xVectorOfSequenceDescriptors |->
          << SequenceInPack(<<"r">>, <<>>, 0, 100), SequenceInPack(<<"r">>, <<>>, 100, 100) >>,
      xVectorOfHoleDescriptors |-> <<>>,
      xPackedNucSeqs |-> [i \in 1..50 |-> 0],
      seed |-> 0,
      uiUnpackedSizeForwardStrand |-> 200 ]
ExampleLast == Seed(0, 10, 85, TRUE)
ExampleNext == Seed(50, 10, 150, TRUE)
ExampleRectangles == getPositionsForSeeds(ExamplePack, 100, ExampleLast, ExampleNext, 0, 60)

\* C10: for two real seeds that do not overlap on the query the result is
\* the pair of the rectangle computed with next = dummy and the rectangle
\* computed with last = dummy whenever the seeds point in opposite
\* directions (ref_size < 0), lie on different strands, span different
\* contigs or ref_size > max_reseed_size; in the example the rectangles
\* reach from 95 to 100 and from 100 to 150.
C10_SplitInTwoRectangles ==
    /\ ( /\ res.op = "rectangles"
         /\ ~seeds[1].bDummy /\ ~seeds[2].bDummy
         /\ start(seeds[2]) >= end(seeds[1])
         /\ NeedsSplit(pack, iMaxSizeReseed, seeds[1], seeds[2],
                       LastRef(pack, iMaxSizeReseed, seeds[1], seeds[2], 0),
                       NextRef(pack, iMaxSizeReseed, seeds[1], seeds[2], QueryLength)) )
       => res.out =
            << PositionsForDummy(pack, iMaxSizeReseed, seeds[1], xDummySeed,
                                 end(seeds[1]), start(seeds[2]))[1],
               PositionsForDummy(pack, iMaxSizeReseed, xDummySeed, seeds[2],
                                 end(seeds[1]), start(seeds[2]))[1] >>
    /\ ExampleRectangles = <<Rectangle(95, 10, 5, 40), Rectangle(100, 10, 50, 40)>>

\* the first and the last position of the seed on the forward strand
FirstRef(rSeed) ==
    IF rSeed.bOnForwStrand THEN start_ref(rSeed) ELSE start_ref(rSeed) - rSeed.iSize + 1
LastPosRef(rSeed) == FirstRef(rSeed) + rSeed.iSize - 1

\* the rectangle of the real seed rSeed of a pair with the dummy seed, as
\* the comments of getPositionsForSeeds describe it: it begins at the end
\* of the seed that faces the dummy, it is uiDistance wide, and it is cut
\* at the border of the contig of the seed.  bBefore: the dummy is rLast.
ClippedInterval(P, rSeed, bBefore, uiDistance) ==
    LET id == uiSequenceIdForPosition(P, FirstRef(rSeed))
        bLeft == (bBefore = rSeed.bOnForwStrand)
        from == IF bLeft THEN Max(startOfSequenceWithId(P, id), FirstRef(rSeed) - uiDistance)
                ELSE LastPosRef(rSeed) + 1
        to == IF bLeft THEN FirstRef(rSeed)
              ELSE Min(endOfSequenceWithId(P, id), LastPosRef(rSeed) + 1 + uiDistance)
    IN  [from |-> from, to |-> to]

\* C11: for a pair of the dummy seed and a real seed the rectangle is
\* empty or its reference interval begins at the real seed, reaches
\* min( iMaxSizeReseed / 2, gap on the query * 1.5 ) away from it and is
\* cut at the border of the contig of the real seed: it lies in that
\* contig and on the forward strand.
C11_DummyRectangleClippedToContig ==
    (res.op = "rectangles" /\ (seeds[1].bDummy # seeds[2].bDummy)) =>
        LET rSeed == IF seeds[1].bDummy THEN seeds[2] ELSE seeds[1]
            uiGap == IF seeds[1].bDummy THEN start(rSeed) ELSE QueryLength - end(rSeed)
            x == ClippedInterval(pack, rSeed, seeds[1].bDummy,
                                 QueryDistance(uiGap, iMaxSizeReseed))
            id == uiSequenceIdForPosition(pack, FirstRef(rSeed))
            xArea == res.out[1]
        IN  \/ res.out = EmptyRectangles /\ (x.from = x.to \/ uiGap <= 0)
            \/ /\ res.out[2] = EmptyRectangle
               /\ xArea.xStart = x.from
               /\ xArea.xStart + xArea.xSize = x.to
               /\ startOfSequenceWithId(pack, id) <= xArea.xStart
               /\ xArea.xStart + xArea.xSize <= endOfSequenceWithId(pack, id)
               /\ xArea.xStart + xArea.xSize <= pack.uiUnpackedSizeForwardStrand

(***************************************************************************)
(* The recursive reseeding.  A call of makeJumpsByReseedingRecursive is a  *)
(* frame of the stack: the frame of a call that has found seeds keeps      *)
(* them and the index of the next nested call.  The loop of execute_helper *)
(* over the filtered seeds is the frame of layer 0.                        *)
(***************************************************************************)
MaxNewSeeds == 1
\* SvJumpsFromSeeds::uiMinDistDummy
uiMinDistDummy == 1

\* the loop of SeedLumping::execute from the seed number k of pIn on
RECURSIVE LumpingLoop(_, _, _, _)
LumpingLoop(pIn, k, pRet, iDelta) ==
    IF k > Len(pIn) THEN pRet
    ELSE LET xIt == pIn[k]
             back == pRet[Len(pRet)]
             iNewDelta == start_ref(xIt) - start(xIt)
         IN  IF iDelta = iNewDelta /\ start(xIt) <= end(back)
             THEN LumpingLoop(pIn, k + 1,
                              IF end(xIt) > end(back)
                              THEN [pRet EXCEPT ![Len(pRet)].iSize = back.iSize + (end(xIt) - end(back))]
                              ELSE pRet,
                              iDelta)
             ELSE LumpingLoop(pIn, k + 1, Append(pRet, xIt), iNewDelta)

\* SeedLumping::execute on seeds, of which there is at least one
SeedLumpingExecute(pIn) ==
    LumpingLoop(pIn, 2, <<pIn[1]>>, start_ref(pIn[1]) - start(pIn[1]))

\* the seeds that fit into the rectangle: the interval on the query in the
\* y axis, the reference positions that the seed covers in the x axis.
\* Which of them a seeder gives is decided by HashMapSeeds and
\* AlignmentSeeds.
SeedsFittingInto(xArea) ==
    { rSeed \in SeedsOn(RefPack, QueryLength) :
        LET first == IF rSeed.bOnForwStrand THEN start_ref(rSeed)
                     ELSE start_ref(rSeed) - rSeed.iSize + 1
        IN  /\ xArea.yStart <= start(rSeed)
            /\ end(rSeed) <= xArea.yStart + xArea.ySize
            /\ xArea.xStart <= first
            /\ first + rSeed.iSize <= xArea.xStart + xArea.xSize }

\* getKMerSizeForRectangle( xArea, dProbabilityForRandomMatch ): the size
\* k_for_rect( W * H, p_rand ) of the k-mers.  The smallest size is 2, so
\* that a rectangle of one base by one base is left at the check of the
\* seed size against the axes; which of the sizes a larger rectangle gets
\* is left open.
uiMinKMerSize == 2
KMerSizes == uiMinKMerSize..(MaxSeedSize + 1)

\* HashMapSeeding::execute on both strands of the reference section with
\* the positions moved back into the rectangle and confirmSeedPositions:
\* the k-mers of the size uiSeedSize that the rectangle can hold
HashMapSeeds(xArea, uiSeedSize) ==
    { rSeed \in SeedsFittingInto(xArea) : rSeed.iSize = uiSeedSize }

\* NeedlemanWunsch::ksw on one strand of the reference section and
\* Alignment::toSeeds: the runs of matches that an alignment of the
\* rectangle can hold.  A rectangle of one base by one base gives no seed.
AlignmentSeeds(xArea, bOnForwStrand) ==
    IF xArea.xSize = 1 /\ xArea.ySize = 1 THEN {}
    ELSE { rSeed \in SeedsFittingInto(xArea) : rSeed.bOnForwStrand = bOnForwStrand }

\* what the code cannot tell from the rectangle alone: the outcome of the
\* test of the sampled ambiguity (the dynamic programming is used), the
\* size of the k-mers, and the strand of the alignment with the higher
\* score
SeederChoices ==
    [ bUsedDp : BOOLEAN, uiSeedSize : KMerSizes, bForwardScoresHigher : BOOLEAN ]

\* computeSeeds for one rectangle: the seeds that can be appended to rvRet.
\* A rectangle without area is not reseeded.  With a sampled ambiguity of
\* at most W * ( 1 + dMaxSequenceSimilarity ) the k-mers are computed,
\* unless their size is larger than the width or the height of the
\* rectangle; otherwise both strands are aligned and the seeds of the
\* alignment with the higher score are taken.
computeSeeds(xArea, xChoice) ==
    IF xArea.xSize = 0 \/ xArea.ySize = 0 THEN {}
    ELSE IF ~xChoice.bUsedDp
    THEN IF xChoice.uiSeedSize > xArea.xSize \/ xChoice.uiSeedSize > xArea.ySize THEN {}
         ELSE HashMapSeeds(xArea, xChoice.uiSeedSize)
    ELSE AlignmentSeeds(xArea, xChoice.bForwardScoresHigher)

\* the vectors of at most MaxNewSeeds different seeds of S, in any order
FoundSeeds(S) ==
    { pvSeeds \in UNION { [1..n -> S] : n \in 0..MaxNewSeeds } :
        \A i, j \in 1..Len(pvSeeds) : i # j => pvSeeds[i] # pvSeeds[j] }

\* computeSeeds for the pair of rectangles: the seeds of the first and
\* then of the second rectangle; seeds, if there are any, are lumped
computeSeedsOfAreas(xAreas, xFirstChoice, xSecondChoice) ==
    LET first == FoundSeeds(computeSeeds(xAreas[1], xFirstChoice))
        second == FoundSeeds(computeSeeds(xAreas[2], xSecondChoice))
        found == { p \in first \X second : Len(p[1]) + Len(p[2]) <= MaxNewSeeds }
    IN  { IF p[1] \o p[2] = <<>> THEN <<>> ELSE SeedLumpingExecute(p[1] \o p[2]) :
            p \in found }

\* ParlindromeFilter::execute: the vectors that are left when any of the
\* seeds are taken out
RECURSIVE ParlindromeFilterExecute(_)
ParlindromeFilterExecute(pSeeds) ==
    IF pSeeds = <<>> THEN {<<>>}
    ELSE LET rest == ParlindromeFilterExecute(Tail(pSeeds))
         IN  rest \cup { <<Head(pSeeds)>> \o pKept : pKept \in rest }

\* std::sort by the start on the query: the orders of the seeds that are
\* sorted
SortedSeeds(pvSeeds) ==
    { [i \in 1..Len(pvSeeds) |-> pvSeeds[p[i]]] :
        p \in { q \in [1..Len(pvSeeds) -> 1..Len(pvSeeds)] :
                  /\ \A i, j \in 1..Len(pvSeeds) : i # j => q[i] # q[j]
                  /\ \A i, j \in 1..Len(pvSeeds) :
                        i < j => start(pvSeeds[q[i]]) <= start(pvSeeds[q[j]]) } }

\* what the reseeding of makeJumpsByReseedingRecursive can give for the
\* rectangles: computeSeeds, the filter and the sort by the start
ReseedOutcomes(xRectangles) ==
    UNION { SortedSeeds(pFiltered) :
              pFiltered \in UNION { ParlindromeFilterExecute(pLumped) :
                  pLumped \in UNION { computeSeedsOfAreas(xRectangles, c, d) :
                                        c \in SeederChoices, d \in SeederChoices } } }

\* the largest distance on the reference of the two ends of a jump that
\* is recorded (max_sv_distance_recorded)
uiMaxSvDistanceRecorded == 3

\* SvJump::validJump: the distance of the two ends of the jump on the
\* reference is at most uiMaxSvDistanceRecorded and the distance on the
\* query is not negative; the seeds are on the same strand or the jump is
\* an inversion, so the strands exclude no jump.  With bFromSeedStart the
\* jump leaves rA at its start and reaches the end of rB, otherwise it
\* leaves rA at its end and reaches the start of rB.
validJump(rA, rB, bFromSeedStart) ==
    LET rFirst == IF bFromSeedStart THEN rB ELSE rA
        rSecond == IF bFromSeedStart THEN rA ELSE rB
        iRefFrom == IF rFirst.bOnForwStrand THEN end_ref(rFirst)
                    ELSE start_ref(rFirst) - rFirst.iSize + 1
        iRefTo == IF rSecond.bOnForwStrand THEN start_ref(rSecond)
                  ELSE start_ref(rSecond) + 1
    IN  /\ Max(iRefTo - iRefFrom, iRefFrom - iRefTo) <= uiMaxSvDistanceRecorded
        /\ start(rSecond) - end(rFirst) >= 0

\* the results that validJump can give: the fields of the dummy seed are
\* not initialized
ValidJumpOutcomes(rA, rB, bFromSeedStart) ==
    IF rA.bDummy \/ rB.bDummy THEN BOOLEAN ELSE {validJump(rA, rB, bFromSeedStart)}

\* SvJump( rSeed, qlen, bFromSeedStart, iId, uiMaxDistDummy )
DummyJump(rSeed, bFromSeedStart) ==
    [bDummy |-> TRUE, rA |-> rSeed, rB |-> xDummySeed, bFromSeedStart |-> bFromSeedStart]

\* SvJump( rA, rB, bFromSeedStart, iId )
SeedJump(rA, rB, bFromSeedStart) ==
    [bDummy |-> FALSE, rA |-> rA, rB |-> rB, bFromSeedStart |-> bFromSeedStart]

\* the jumps of a call that does not compare the distance of the seed from
\* the end of the query with uiMinDistDummy
JumpsOfCallWithoutMinDist(rLast, rNext, bDoDummy, bValidForward, bValidBackward) ==
    IF (rLast.bDummy \/ rNext.bDummy) /\ bDoDummy
    THEN (IF ~rNext.bDummy THEN <<DummyJump(rNext, FALSE)>> ELSE <<>>)
         \o (IF ~rLast.bDummy THEN <<DummyJump(rLast, TRUE)>> ELSE <<>>)
    ELSE (IF bValidForward THEN <<SeedJump(rNext, rLast, TRUE)>> ELSE <<>>)
         \o (IF bValidBackward THEN <<SeedJump(rLast, rNext, FALSE)>> ELSE <<>>)

\* dummy jumps with a strict comparison at the end of the query
DummyJumpsStrictAtEnd(rLast, rNext, uiQueryLength, uiMinDist) ==
    (IF ~rNext.bDummy /\ start(rNext) > uiMinDist
     THEN <<DummyJump(rNext, FALSE)>> ELSE <<>>)
    \o (IF ~rLast.bDummy /\ end(rLast) + uiMinDist < uiQueryLength
        THEN <<DummyJump(rLast, TRUE)>> ELSE <<>>)

\* the dummy jumps of a pair with the dummy seed on a query of the length
\* uiQueryLength
DummyJumps(rLast, rNext, uiQueryLength, uiMinDist) ==
    (IF ~rNext.bDummy /\ start(rNext) > uiMinDist
     THEN <<DummyJump(rNext, FALSE)>> ELSE <<>>)
    \o (IF ~rLast.bDummy /\ end(rLast) + uiMinDist <= uiQueryLength
        THEN <<DummyJump(rLast, TRUE)>> ELSE <<>>)

\* the jumps that a call without new seeds appends to pRet
JumpsOfCall(rLast, rNext, bDoDummy, bValidForward, bValidBackward) ==
    IF (rLast.bDummy \/ rNext.bDummy) /\ bDoDummy
    THEN DummyJumps(rLast, rNext, QueryLength, uiMinDistDummy)
    ELSE (IF bValidForward THEN <<SeedJump(rNext, rLast, TRUE)>> ELSE <<>>)
         \o (IF bValidBackward THEN <<SeedJump(rLast, rNext, FALSE)>> ELSE <<>>)

\* the frame of a call that has not reseeded yet
CallFrame(rLast, rNext, uiLayer) ==
    [ rLast |-> rLast, rNext |-> rNext, uiLayer |-> uiLayer,
      pc |-> "call", pvSeeds |-> <<>>, uiNext |-> 0 ]

\* a nested call that is made for the pair of the frame itself
NestedCallOfSamePair(frame, k) ==
    CallFrame(frame.rLast, frame.rNext, frame.uiLayer + 1)

\* the nested call number k of the loop over the seeds of the frame:
\* the pairs ( pCurr, rSeed ) and at last ( pCurr, rNext )
NestedCall(frame, k) ==
    CallFrame(IF k = 1 THEN frame.rLast ELSE frame.pvSeeds[k - 1],
              IF k = Len(frame.pvSeeds) + 1 THEN frame.rNext ELSE frame.pvSeeds[k],
              frame.uiLayer + 1)

\* the filtered seeds of the read: one seed
InitReseed ==
    /\ pack = RefPack
    /\ appended = <<>>
    /\ res = NoResult
    /\ files = NoFiles
    /\ bAssert = FALSE
    /\ \E rSeed \in RealSeeds : seeds = <<rSeed>>
    /\ stack = <<>>
    /\ log = <<>>
    /\ bDoDummyJumps \in BOOLEAN
    /\ NoAlignment
    /\ shared \in Modules({"part_000"})
    /\ threads = <<>>
    /\ nucSeq = NoNucSeq
    /\ uiLastEnd = 0

\* execute_helper begins the loop over the filtered seeds
ExecuteHelper ==
    /\ res = NoResult
    /\ stack = <<>>
    /\ stack' = << [CallFrame(xDummySeed, xDummySeed, 0) EXCEPT
                       !.pc = "loop", !.pvSeeds = seeds, !.uiNext = 1] >>
    /\ res' = [op |-> "execute_helper", bReturned |-> FALSE]
    /\ UNCHANGED <<packVars, seeds, log, bDoDummyJumps, alnVars, objVars>>

\* the loop of the frame on top makes its next nested call
NestedCallBegins ==
    /\ stack # <<>>
    /\ Back(stack).pc = "loop"
    /\ Back(stack).uiNext <= Len(Back(stack).pvSeeds) + 1
    /\ stack' = Append([stack EXCEPT ![Len(stack)].uiNext = @ + 1],
                       NestedCall(Back(stack), Back(stack).uiNext))
    /\ UNCHANGED <<packVars, res, seeds, log, bDoDummyJumps, alnVars, objVars>>

\* the loop of the frame on top is over: the call returns
CallReturns ==
    /\ stack # <<>>
    /\ Back(stack).pc = "loop"
    /\ Back(stack).uiNext > Len(Back(stack).pvSeeds) + 1
    /\ stack' = SubSeq(stack, 1, Len(stack) - 1)
    /\ res' = IF Len(stack) = 1 THEN [res EXCEPT !.bReturned = TRUE] ELSE res
    /\ UNCHANGED <<packVars, seeds, log, bDoDummyJumps, alnVars, objVars>>

\* the rectangles of the call on top
RectanglesOfCall(frame) ==
    getPositionsForSeeds(pack, iMaxSizeReseed, frame.rLast, frame.rNext, 0, QueryLength)

\* the call on top reseeds and finds seeds
ReseedFindsSeeds ==
    /\ stack # <<>>
    /\ Back(stack).pc = "call"
    /\ \E pvSeeds \in ReseedOutcomes(RectanglesOfCall(Back(stack))) :
          /\ pvSeeds # <<>>
          /\ stack' = [stack EXCEPT ![Len(stack)].pc = "loop",
                                    ![Len(stack)].pvSeeds = pvSeeds,
                                    ![Len(stack)].uiNext = 1]
    /\ UNCHANGED <<packVars, res, seeds, log, bDoDummyJumps, alnVars, objVars>>

\* pRet->size( ): the number of the jumps that the calls have appended
SizeOfRet == IF log = <<>> THEN 0 ELSE log[1].uiSizeOfRet

\* the number of the calls that have found no seeds and have ended
EndedCalls == IF log = <<>> THEN 0 ELSE log[1].uiEnded

\* the call on top reseeds, finds no seed, appends its jumps and returns
ReseedFindsNothing(bValidForward, bValidBackward) ==
    /\ stack # <<>>
    /\ Back(stack).pc = "call"
    /\ bValidForward \in ValidJumpOutcomes(Back(stack).rNext, Back(stack).rLast, TRUE)
    /\ bValidBackward \in ValidJumpOutcomes(Back(stack).rLast, Back(stack).rNext, FALSE)
    /\ log' = << [ rLast |-> Back(stack).rLast, rNext |-> Back(stack).rNext,
                   uiLayer |-> Back(stack).uiLayer,
                   jumps |-> JumpsOfCall(Back(stack).rLast, Back(stack).rNext,
                                         bDoDummyJumps, bValidForward, bValidBackward),
                   uiSizeOfRet |-> SizeOfRet + Len(JumpsOfCall(Back(stack).rLast,
                                         Back(stack).rNext, bDoDummyJumps,
                                         bValidForward, bValidBackward)),
                   uiEnded |-> EndedCalls + 1 ] >>
    /\ stack' = SubSeq(stack, 1, Len(stack) - 1)
    /\ UNCHANGED <<packVars, res, seeds, bDoDummyJumps, alnVars, objVars>>

NextReseed ==
    \/ ExecuteHelper
    \/ NestedCallBegins
    \/ CallReturns
    \/ ReseedFindsSeeds
    \/ \E bValidForward \in BOOLEAN, bValidBackward \in BOOLEAN :
          ReseedFindsNothing(bValidForward, bValidBackward)

SpecReseed == InitReseed /\ [][NextReseed]_vars

\* the part of the query between the seeds of the call; the dummy seed
\* stands for the start and for the end of the query
Gap(frame) ==
    (IF frame.rNext.bDummy THEN QueryLength ELSE start(frame.rNext))
      - (IF frame.rLast.bDummy THEN 0 ELSE end(frame.rLast))

\* the calls of makeJumpsByReseedingRecursive that are on the stack
Calls == { i \in 1..Len(stack) : stack[i].uiLayer >= 1 }

\* C8 as the specification states it: the depth of the recursion is bounded
\* by iMaxSizeReseed halving at each call, so no call is made at a layer
\* at which the halved size has reached zero.
C8_DepthBoundedByHalving ==
    \A i \in Calls : iMaxSizeReseed \div Pow2(stack[i].uiLayer - 1) >= 1

\* C8: the recursive reseeding of part_000:240-312 terminates because the
\* part of the query between the seeds of a call shrinks with every nested
\* call: a call that finds seeds has a gap of at least one base, the gap
\* of a nested call is smaller than the gap of its caller, the layer of a
\* call plus its gap is at most the length of the query, and a call
\* without a gap finds no seed and ends its chain.  iMaxSizeReseed is not
\* halved.
C8_RecursionTerminates ==
    \A i \in Calls :
        /\ stack[i].pc = "loop" => Gap(stack[i]) >= 1
        /\ (i - 1) \in Calls => Gap(stack[i]) < Gap(stack[i - 1])
        /\ stack[i].uiLayer + Gap(stack[i]) <= QueryLength
        /\ stack[i].uiLayer = i - 1
        /\ Gap(stack[i]) <= 0 => ReseedOutcomes(RectanglesOfCall(stack[i])) = {<<>>}

\* a chain of three nested calls whose last call has no gap; every call of
\* the chain that has found seeds has a rectangle of more than one base
C8_Witness ==
    /\ stack # <<>>
    /\ Back(stack).uiLayer >= 3
    /\ Back(stack).pc = "call"
    /\ Gap(Back(stack)) <= 0
    /\ Gap(stack[Len(stack) - 1]) < Gap(stack[Len(stack) - 2])
    /\ \A i \in Calls :
          stack[i].pc = "loop" =>
              \E k \in 1..2 :
                  RectanglesOfCall(stack[i])[k].xSize * RectanglesOfCall(stack[i])[k].ySize > 1

\* no rectangle of the pair has an area
BothEmpty(xRectangles) ==
    /\ xRectangles[1].xSize = 0 \/ xRectangles[1].ySize = 0
    /\ xRectangles[2].xSize = 0 \/ xRectangles[2].ySize = 0

\* the call that has ended last had rectangles without area
EndedWithEmptyRectangles ==
    /\ log # <<>>
    /\ BothEmpty(RectanglesOfCall(log[1]))

\* C9 as the specification states it: a call whose rectangles are both
\* empty emits no jump.
C9_EmptyRectanglesNoJumps ==
    EndedWithEmptyRectangles => log[1].jumps = <<>>

\* C9: a call whose rectangles are both empty finds no seeds and makes no
\* nested call; it emits the jumps of its pair all the same: with the dummy
\* seed in the pair and dummy jumps switched on, the dummy jump of the real
\* seed if that seed is farther than uiMinDistDummy from its end of the
\* query, otherwise nothing but jumps between its two seeds.
C9_EmptyRectanglesEndRecursion ==
    /\ \A i \in Calls :
          stack[i].pc = "loop" => ~BothEmpty(RectanglesOfCall(stack[i]))
    /\ EndedWithEmptyRectangles =>
          LET rLast == log[1].rLast
              rNext == log[1].rNext
              jumps == log[1].jumps
          IN  IF (rLast.bDummy \/ rNext.bDummy) /\ bDoDummyJumps
              THEN /\ (\E j \in 1..Len(jumps) : jumps[j] = DummyJump(rNext, FALSE))
                        <=> (~rNext.bDummy /\ start(rNext) > uiMinDistDummy)
                   /\ (\E j \in 1..Len(jumps) : jumps[j] = DummyJump(rLast, TRUE))
                        <=> (~rLast.bDummy /\ end(rLast) + uiMinDistDummy <= QueryLength)
                   /\ \A j \in 1..Len(jumps) : jumps[j].bDummy
              ELSE /\ Len(jumps) <= 2
                   /\ \A j \in 1..Len(jumps) :
                         jumps[j] \in {SeedJump(rNext, rLast, TRUE), SeedJump(rLast, rNext, FALSE)}

\* a call for the dummy seed and a seed at the start of its contig has
\* ended: its rectangles are empty and it has emitted a dummy jump
C9_Witness ==
    /\ EndedWithEmptyRectangles
    /\ log[1].rLast.bDummy
    /\ log[1].jumps = <<DummyJump(log[1].rNext, FALSE)>>

\* the jumps of the sequence
JumpSet(jumps) == { jumps[j] : j \in 1..Len(jumps) }

\* a call for a pair with the dummy seed has ended while dummy jumps are
\* switched on
EndedWithDummy ==
    /\ log # <<>>
    /\ bDoDummyJumps
    /\ log[1].rLast.bDummy # log[1].rNext.bDummy

\* C12: with dummy jumps switched on, a call for ( dummy, next ) that finds
\* no seeds emits the left dummy jump exactly when next starts more than
\* uiMinDistDummy behind the start of the query, and a call for
\* ( last, dummy ) emits the right dummy jump exactly when last ends more
\* than uiMinDistDummy before the end of the query; a read of length 500
\* with the first seed at 50 and uiMinDistDummy = 10 gets one left dummy
\* jump.
C12_DummyJumpsAtBothEnds ==
    /\ EndedWithDummy =>
          LET rLast == log[1].rLast
              rNext == log[1].rNext
          IN  /\ rLast.bDummy =>
                    /\ DummyJump(rNext, FALSE) \in JumpSet(log[1].jumps)
                          <=> start(rNext) > uiMinDistDummy
                    /\ Len(log[1].jumps) <= 1
              /\ rNext.bDummy =>
                    /\ DummyJump(rLast, TRUE) \in JumpSet(log[1].jumps)
                          <=> QueryLength - end(rLast) > uiMinDistDummy
                    /\ Len(log[1].jumps) <= 1
    /\ DummyJumps(xDummySeed, Seed(50, 20, 1000, TRUE), 500, 10)
          = <<DummyJump(Seed(50, 20, 1000, TRUE), FALSE)>>

\* execute_helper has returned and none of its two calls for the single
\* seed of the read has found seeds
SingleSeedNoReseeding ==
    /\ res.op = "execute_helper"
    /\ res.bReturned
    /\ Len(seeds) = 1
    /\ EndedCalls = 2

\* the ends of the read qualify for a dummy jump
LeftEndQualifies == start(seeds[1]) > uiMinDistDummy
RightEndQualifies == end(seeds[1]) + uiMinDistDummy <= QueryLength

\* C13 as the specification states it: a read with a single seed and
\* without reseeded seeds gets two dummy jumps if both ends qualify and
\* none otherwise.
C13_TwoDummyJumpsOrNone ==
    (SingleSeedNoReseeding /\ bDoDummyJumps) =>
        SizeOfRet = (IF LeftEndQualifies /\ RightEndQualifies THEN 2 ELSE 0)

\* C13: with dummy jumps switched on, a read with a single seed and
\* without reseeded seeds gets one dummy jump for each end that qualifies:
\* two, one or none; the call that has ended last has emitted the right
\* dummy jump or nothing.
C13_OneDummyJumpPerQualifyingEnd ==
    (SingleSeedNoReseeding /\ bDoDummyJumps) =>
        /\ SizeOfRet = (IF LeftEndQualifies THEN 1 ELSE 0)
                         + (IF RightEndQualifies THEN 1 ELSE 0)
        /\ log[1].jumps = (IF RightEndQualifies
                           THEN <<DummyJump(seeds[1], TRUE)>> ELSE <<>>)

\* a read whose single seed starts at the start of the query has got
\* the right dummy jump only
C13_Witness ==
    /\ SingleSeedNoReseeding
    /\ bDoDummyJumps
    /\ ~LeftEndQualifies
    /\ SizeOfRet = 1

(***************************************************************************)
(* The seeds of the segments of a read: execute_helper up to the call of   *)
(* the palindrome filter.  A segment is a part of the query together with  *)
(* the positions of its occurrences on the reference in the order of the   *)
(* suffix array.                                                           *)
(***************************************************************************)
MaxSegments == 3
MaxOccurrences == 2
\* SvJumpsFromSeeds::uiMinSeedSizeSV
uiMinSeedSizeSV == 2

Segment(iStart, iSize, saInterval) ==
    [iStart |-> iStart, iSize |-> iSize, saInterval |-> saInterval]

\* the sequences without repetition of at most n elements of S
RECURSIVE Arrangements(_, _)
Arrangements(S, n) ==
    IF n = 0 THEN {<<>>}
    ELSE LET shorter == Arrangements(S, n - 1)
         IN  shorter \cup
               { a \in { Append(b, x) : b \in shorter, x \in S } :
                   \A i \in 1..(Len(a) - 1) : a[i] # a[Len(a)] }

\* the starts of the segments on the query and the positions of their
\* occurrences on the reference in the order of the suffix array
SegmentStarts == {0, 1, 2}
SaIntervals == {<<0>>, <<1>>, <<0, 2>>, <<2, 0>>, <<1, 2>>}

\* the segments of a read: they are long enough or one base too short
Segments ==
    { Segment(q, l, sa) :
        q \in SegmentStarts, l \in {uiMinSeedSizeSV - 1, uiMinSeedSizeSV},
        sa \in SaIntervals }

\* the vectors of at most n segments of a read in any order; the starts of
\* the segments on the query differ
RECURSIVE SegmentVectors(_)
SegmentVectors(n) ==
    IF n = 0 THEN {<<>>}
    ELSE LET shorter == SegmentVectors(n - 1)
         IN  shorter \cup
               UNION { { Append(b, x) :
                           x \in { rSegment \in Segments :
                                     \A i \in 1..Len(b) : b[i].iStart # rSegment.iStart } } :
                       b \in shorter }

\* Segment::forEachSeed: the seeds of the occurrences of the segment
SeedsOfSegment(rSegment) ==
    [ i \in 1..Len(rSegment.saInterval) |->
        Seed(rSegment.iStart, rSegment.iSize, rSegment.saInterval[i], TRUE) ]

\* SegmentVector::emplaceAllEachSeeds: the seeds of all the segments that
\* are long enough and have at most uiMaxAmbiguity occurrences
RECURSIVE emplaceAllEachSeeds(_, _, _)
emplaceAllEachSeeds(rSegments, uiMaxAmbiguity, uiMinLen) ==
    IF rSegments = <<>> THEN <<>>
    ELSE LET rSegment == Head(rSegments)
             rest == emplaceAllEachSeeds(Tail(rSegments), uiMaxAmbiguity, uiMinLen)
         IN  IF rSegment.iSize < uiMinLen \/ Len(rSegment.saInterval) > uiMaxAmbiguity
             THEN rest
             ELSE SeedsOfSegment(rSegment) \o rest

\* std::sort of the segments by their start on the query; the starts of
\* the segments differ
RECURSIVE SortedByStart(_)
SortedByStart(rSegments) ==
    IF rSegments = <<>> THEN <<>>
    ELSE LET i == CHOOSE i \in 1..Len(rSegments) :
                    \A j \in 1..Len(rSegments) : rSegments[i].iStart <= rSegments[j].iStart
         IN  <<rSegments[i]>>
               \o SortedByStart(SubSeq(rSegments, 1, i - 1)
                                  \o SubSeq(rSegments, i + 1, Len(rSegments)))

\* the seeds that execute_helper computes from the segments with
\* emplaceAllEachSeeds
SeedsOfExecuteHelper(rSegments) ==
    emplaceAllEachSeeds(SortedByStart(rSegments), 1, uiMinSeedSizeSV)

InitSeeds ==
    /\ pack = RefPack
    /\ appended = <<>>
    /\ res = NoResult
    /\ files = NoFiles
    /\ bAssert = FALSE
    /\ seeds = <<>>
    /\ stack = <<>>
    /\ log = <<>>
    /\ bDoDummyJumps = FALSE
    /\ pSegments \in SegmentVectors(MaxSegments)
    /\ uiMaxAmbiguitySv \in 1..MaxOccurrences
    /\ vMaxima = <<>>
    /\ harm = [uiNumTries |-> 0, pSoCs |-> <<>>, uiSoCIndex |-> 0]
    /\ shared \in Modules({"part_009", "part_000"})
    /\ threads = <<>>
    /\ nucSeq = NoNucSeq
    /\ uiLastEnd = 0

\* execute_helper of part_000, in which the filter is compiled out, sorts
\* the segments in place and computes the seeds
EmitSeeds ==
    /\ res = NoResult
    /\ shared.sVersion = "part_000"
    /\ pSegments' = SortedByStart(pSegments)
    /\ seeds' = SeedsOfExecuteHelper(pSegments)
    /\ res' = [op |-> "seeds"]
    /\ UNCHANGED <<packVars, stack, log, bDoDummyJumps, uiMaxAmbiguitySv, vMaxima, harm, objVars>>

Abs(x) == IF x < 0 THEN -x ELSE x

\* iDelta of a seed
DeltaOfSeed(rS) == start(rS) - start_ref(rS)

\* the distance of the delta of a seed to iUniqueDelta and, if bUseLast,
\* to iLastUniqueDelta
DistOfSeedByDelta(rS, iUniqueDelta, bUseLast, iLastUniqueDelta) ==
    IF bUseLast
    THEN Min(Abs(DeltaOfSeed(rS) - iUniqueDelta), Abs(DeltaOfSeed(rS) - iLastUniqueDelta))
    ELSE Abs(DeltaOfSeed(rS) - iUniqueDelta)

\* part_009: iDist of a seed, the distance on the reference to the unique
\* seed and, if bUseLast, to the end of the last unique seed
DistOfSeedOnReference(rS, iUniqueRefPos, bUseLast, iLastUniqueRefPos) ==
    IF bUseLast
    THEN Min(Abs(start_ref(rS) - iUniqueRefPos), Abs(start_ref(rS) - iLastUniqueRefPos))
    ELSE Abs(start_ref(rS) - iUniqueRefPos)

\* part_009: xBest, the first seed of the segment with the smallest iDist
BestSeedOnReference(rSegment, iUniqueRefPos, bUseLast, iLastUniqueRefPos) ==
    LET rSeeds == SeedsOfSegment(rSegment)
        D(i) == DistOfSeedOnReference(rSeeds[i], iUniqueRefPos, bUseLast, iLastUniqueRefPos)
        iBest == CHOOSE i \in 1..Len(rSeeds) :
                    /\ \A j \in 1..Len(rSeeds) : D(i) <= D(j)
                    /\ \A j \in 1..(i - 1) : D(j) > D(i)
    IN  rSeeds[iBest]

\* part_009: the loops of the filter of the ambiguous segments; the result
\* is vSeeds and uiNumSeedsTotal
RECURSIVE FilterOnReferenceLoop(_, _, _, _, _)
FilterOnReferenceLoop(rSegments, vTemp, iLastUniqueRefPos, vSeeds, uiNumSeedsTotal) ==
    IF rSegments = <<>>
    THEN [vSeeds |-> vSeeds \o [ i \in 1..Len(vTemp) |->
                                   BestSeedOnReference(vTemp[i], iLastUniqueRefPos, FALSE,
                                                       iLastUniqueRefPos) ],
          uiNumSeedsTotal |-> uiNumSeedsTotal]
    ELSE LET rSegment == Head(rSegments)
             rS == SeedsOfSegment(rSegment)[1]
             uiTotal == uiNumSeedsTotal + Len(rSegment.saInterval)
         IN  IF rSegment.iSize < uiMinSeedSizeSV
             THEN FilterOnReferenceLoop(Tail(rSegments), vTemp, iLastUniqueRefPos, vSeeds,
                                        uiNumSeedsTotal)
             ELSE IF Len(rSegment.saInterval) = 1
             THEN FilterOnReferenceLoop(Tail(rSegments), <<>>, end_ref(rS),
                      vSeeds \o [ i \in 1..Len(vTemp) |->
                                    BestSeedOnReference(vTemp[i], start_ref(rS),
                                                        iLastUniqueRefPos # -1,
                                                        iLastUniqueRefPos) ]
                             \o <<rS>>,
                      uiTotal)
             ELSE FilterOnReferenceLoop(Tail(rSegments), Append(vTemp, rSegment),
                                        iLastUniqueRefPos, vSeeds, uiTotal)

\* part_009: the seeds that execute computes from the segments with the
\* filter of the ambiguous segments, and uiNumSeedsTotal
FilterOnReference(rSegments) ==
    FilterOnReferenceLoop(SortedByStart(rSegments), <<>>, -1, <<>>, 0)

\* execute of part_009, in which the filter of the ambiguous segments is
\* compiled in, up to the wait for the mutex: the segments are sorted in
\* place and the seeds are computed; no member of the module is read or
\* written
EmitFilteredSeeds ==
    /\ res = NoResult
    /\ shared.sVersion = "part_009"
    /\ pSegments' = SortedByStart(pSegments)
    /\ LET r == FilterOnReference(pSegments)
       IN  /\ seeds' = r.vSeeds
           /\ res' = [op |-> "seeds computed", uiNumSeedsTotal |-> r.uiNumSeedsTotal]
    /\ UNCHANGED <<packVars, stack, log, bDoDummyJumps, uiMaxAmbiguitySv, vMaxima, harm,
                   objVars>>

\* the scope of the guard: execute waits until the mutex of the module is
\* free, raises the two counters with the mutex held and frees it
CountFilteredSeeds ==
    /\ res.op = "seeds computed"
    /\ shared.xLock = 0
    /\ shared' = [shared EXCEPT
           !.uiNumSeedsEliminatedAmbiguityFilter = @ + res.uiNumSeedsTotal - Len(seeds),
           !.uiNumSeedsKeptAmbiguityFilter = @ + Len(seeds)]
    /\ res' = [op |-> "filtered seeds"]
    /\ UNCHANGED <<packVars, seeds, stack, log, bDoDummyJumps, alnVars,
                   threads, nucSeq, uiLastEnd>>

NextSeeds == EmitSeeds \/ EmitFilteredSeeds \/ CountFilteredSeeds

SpecSeeds == InitSeeds /\ [][NextSeeds]_vars

\* the seeds of the sequence
SeedSet(rSeeds) == { rSeeds[i] : i \in 1..Len(rSeeds) }

\* C14: the seeds that execute_helper computes are the occurrences of the
\* segments that have at least uiMinSeedSizeSV bases and at most
\* uiMaxAmbiguitySv occurrences, all of them and no others.
C14_SeedsOfSegmentsUpToMaxAmbiguity ==
    res.op = "seeds" =>
        SeedSet(seeds) =
            UNION { SeedSet(SeedsOfSegment(pSegments[i])) :
                      i \in { j \in 1..Len(pSegments) :
                                 /\ pSegments[j].iSize >= uiMinSeedSizeSV
                                 /\ Len(pSegments[j].saInterval) <= uiMaxAmbiguitySv } }

\* the segment is long enough and has one occurrence
IsUnique(rSegment) ==
    rSegment.iSize >= uiMinSeedSizeSV /\ Len(rSegment.saInterval) = 1

\* the deltas of the unique segments next to segment i of the sorted
\* segments: of the last one before it and of the first one behind it
NeighbourDeltas(rSegments, i) ==
    { DeltaOfSeed(SeedsOfSegment(rSegments[j])[1]) :
        j \in { k \in 1..Len(rSegments) :
                  /\ IsUnique(rSegments[k])
                  /\ k # i
                  /\ \A l \in 1..Len(rSegments) :
                        (IsUnique(rSegments[l]) /\ (l < i <=> k < i))
                            => Abs(l - i) >= Abs(k - i) } }

\* the distance of the delta of the seed to the nearest of the deltas
DistanceToNeighbours(rS, deltas) ==
    CHOOSE d \in { Abs(DeltaOfSeed(rS) - n) : n \in deltas } :
        \A n \in deltas : d <= Abs(DeltaOfSeed(rS) - n)

\* the seeds of the example: unique segments with the deltas 0 and 2 and
\* between them a segment with occurrences of the deltas -5, 0 and 100
ExampleSegments ==
    << Segment(0, 20, <<0>>), Segment(110, 20, <<115, 110, 10>>), Segment(150, 20, <<148>>) >>

\* C15 as the specification states it: with the filter of the ambiguous
\* segments, every segment that is long enough, has more than one
\* occurrence and has a unique segment before or behind it on the query
\* gives exactly one seed, and no other occurrence of it has a delta closer
\* to the delta of the previous or of the next unique segment; in the
\* example the occurrence with the delta 0 is chosen.
C15_AmbiguousSegmentGivesClosestSeed ==
    res.op = "filtered seeds" =>
       /\ \A i \in 1..Len(pSegments) :
              ( /\ pSegments[i].iSize >= uiMinSeedSizeSV
                /\ Len(pSegments[i].saInterval) > 1
                /\ NeighbourDeltas(pSegments, i) # {} ) =>
                  LET chosen == { j \in 1..Len(seeds) : start(seeds[j]) = pSegments[i].iStart }
                      deltas == NeighbourDeltas(pSegments, i)
                  IN  /\ Cardinality(chosen) = 1
                      /\ \A j \in chosen :
                            /\ seeds[j] \in SeedSet(SeedsOfSegment(pSegments[i]))
                            /\ \A rS \in SeedSet(SeedsOfSegment(pSegments[i])) :
                                  DistanceToNeighbours(seeds[j], deltas)
                                      <= DistanceToNeighbours(rS, deltas)
       /\ FilterOnReference(ExampleSegments).vSeeds
             = << Seed(0, 20, 0, TRUE), Seed(110, 20, 110, TRUE), Seed(150, 20, 148, TRUE) >>

\* the positions on the reference that the filter compares the occurrences
\* of segment i of the sorted segments with: the end of the last unique
\* segment before it and the start of the first unique segment behind it,
\* and -1 if there is neither
NeighbourPositions(rSegments, i) ==
    LET before == { k \in 1..(i - 1) : IsUnique(rSegments[k]) }
        behind == { k \in (i + 1)..Len(rSegments) : IsUnique(rSegments[k]) }
        ends == { end_ref(SeedsOfSegment(rSegments[k])[1]) :
                    k \in { l \in before : \A m \in before : m <= l } }
        starts == { start_ref(SeedsOfSegment(rSegments[k])[1]) :
                      k \in { l \in behind : \A m \in behind : m >= l } }
    IN  IF ends \cup starts = {} THEN {-1} ELSE ends \cup starts

\* the distance of the start of the seed on the reference to the nearest
\* of the positions
DistanceOnReference(rS, positions) ==
    CHOOSE d \in { Abs(start_ref(rS) - n) : n \in positions } :
        \A n \in positions : d <= Abs(start_ref(rS) - n)

\* the segment is long enough and has more than one occurrence
IsAmbiguous(rSegment) ==
    rSegment.iSize >= uiMinSeedSizeSV /\ Len(rSegment.saInterval) > 1

\* C15: in the version with the filter of the ambiguous segments compiled
\* in, every segment that is long enough and has more than one occurrence
\* gives exactly one seed, and no other occurrence of it starts closer on
\* the reference to the end of the previous or to the start of the next
\* unique segment; the deltas are not compared, and in the example the
\* occurrence with the delta 100 is chosen.
C15_AmbiguousSegmentGivesClosestOnReference ==
    res.op = "filtered seeds" =>
       /\ \A i \in 1..Len(pSegments) :
              IsAmbiguous(pSegments[i]) =>
                  LET chosen == { j \in 1..Len(seeds) : start(seeds[j]) = pSegments[i].iStart }
                      positions == NeighbourPositions(pSegments, i)
                  IN  /\ Cardinality(chosen) = 1
                      /\ \A j \in chosen :
                            /\ seeds[j] \in SeedSet(SeedsOfSegment(pSegments[i]))
                            /\ \A rS \in SeedSet(SeedsOfSegment(pSegments[i])) :
                                  DistanceOnReference(seeds[j], positions)
                                      <= DistanceOnReference(rS, positions)
       /\ FilterOnReference(ExampleSegments).vSeeds
             = << Seed(0, 20, 0, TRUE), Seed(110, 20, 10, TRUE), Seed(150, 20, 148, TRUE) >>

\* an ambiguous segment between two unique segments has given its second
\* occurrence, which is the closer one on the reference and the farther one
\* by its delta
C15_Witness ==
    /\ res.op = "filtered seeds"
    /\ Len(pSegments) = 3
    /\ IsUnique(pSegments[1]) /\ IsAmbiguous(pSegments[2]) /\ IsUnique(pSegments[3])
    /\ Len(seeds) = 3
    /\ seeds[2] = SeedsOfSegment(pSegments[2])[2]
    /\ LET deltas == NeighbourDeltas(pSegments, 2)
       IN  DistanceToNeighbours(seeds[2], deltas)
               > DistanceToNeighbours(SeedsOfSegment(pSegments[2])[1], deltas)

(***************************************************************************)
(* The line sweep over the seeds of a strip of consideration.  A shadow    *)
(* is an interval together with the index of its seed in the strip.        *)
(***************************************************************************)
MaxStripSeeds == 3
\* the positions on the query and on the reference of the seeds of a strip
StripPositions == {0, 1}

\* ShadowInterval( iBegin, iSize, pSeed )
ShadowInterval(iBegin, iSize, pSeed) ==
    [iStart |-> iBegin, iSize |-> iSize, pSeed |-> pSeed]

\* LineSweep::getLeftShadow
getLeftShadow(rSeeds, pSeed, uiQueryLength) ==
    ShadowInterval(start(rSeeds[pSeed]),
                   end_ref(rSeeds[pSeed]) - start(rSeeds[pSeed]) + uiQueryLength, pSeed)

\* LineSweep::getRightShadow
getRightShadow(rSeeds, pSeed, iRefSize) ==
    ShadowInterval(start_ref(rSeeds[pSeed]),
                   end(rSeeds[pSeed]) - start_ref(rSeeds[pSeed]) + iRefSize, pSeed)

\* the order of the shadows that takes no account of their ends
ShadowBeforeByStartOnly(xA, xB) == start(xA) < start(xB)

\* the order that linesweep sorts the shadows with
ShadowBefore(xA, xB) ==
    IF start(xA) = start(xB) THEN end(xA) > end(xB) ELSE start(xA) < start(xB)

\* the results that std::sort can give for the shadows
SortedShadows(vShadows) ==
    { sorted \in Arrangements({ vShadows[i] : i \in 1..Len(vShadows) }, Len(vShadows)) :
        /\ Len(sorted) = Len(vShadows)
        /\ \A i, j \in 1..Len(sorted) : i < j => ~ShadowBefore(sorted[j], sorted[i]) }

\* ShadowInterval::within
within(xA, xB) == start(xA) >= start(xB) /\ end(xA) <= end(xB)

\* SelfBalancingBinarySearchTree::insert with addInterferingInterval and
\* removeSeedIfNecessary: the seed of the new shadow is dropped if a shadow
\* of the tree ends at or behind the end of the new one, which then
\* contains the new one, as the shadows come in the order of their starts
InterferingShadow(xIntervalEnds, rInterval) ==
    \E x \in xIntervalEnds : end(x) >= end(rInterval)

\* the loop of linesweep over the sorted shadows from number k on:
\* xIntervalEnds holds the shadows that have not ended, removed the seeds
\* that are removed
RECURSIVE SweepLoop(_, _, _, _)
SweepLoop(sorted, k, xIntervalEnds, removed) ==
    IF k > Len(sorted) THEN removed
    ELSE LET rInterval == sorted[k]
             remaining == { x \in xIntervalEnds : end(x) > start(rInterval) }
         IN  SweepLoop(sorted, k + 1, remaining \cup {rInterval},
                       IF InterferingShadow(remaining, rInterval)
                       THEN removed \cup {rInterval.pSeed} ELSE removed)

\* LineSweep::linesweep: the seeds that the sweep removes
linesweep(sorted) == SweepLoop(sorted, 1, {}, {})

\* the seeds of the strip without the removed ones, in the order of the strip
RECURSIVE SeedsWithout(_, _, _)
SeedsWithout(rSeeds, removed, k) ==
    IF k > Len(rSeeds) THEN <<>>
    ELSE IF k \in removed THEN SeedsWithout(rSeeds, removed, k + 1)
    ELSE <<rSeeds[k]>> \o SeedsWithout(rSeeds, removed, k + 1)

\* the shadows of the seeds of the strip, one for each seed
LeftShadowsOf(rSeeds, uiQueryLength) ==
    [ i \in 1..Len(rSeeds) |-> getLeftShadow(rSeeds, i, uiQueryLength) ]
RightShadowsOf(rSeeds, iRefSize) ==
    [ i \in 1..Len(rSeeds) |-> getRightShadow(rSeeds, i, iRefSize) ]

\* LineSweep::execute: the sweep over the left shadows of the seeds of the
\* strip, then the sweep over the right shadows of the seeds that are left;
\* one result for each order that the sorting can give
SweepResults(rSeeds, uiQueryLength, iRefSize) ==
    UNION { LET afterLeft == SeedsWithout(rSeeds, linesweep(sortedLeft), 1)
            IN  { [afterLeft |-> afterLeft,
                   seeds |-> SeedsWithout(afterLeft, linesweep(sortedRight), 1)] :
                    sortedRight \in SortedShadows(RightShadowsOf(afterLeft, iRefSize)) } :
              sortedLeft \in SortedShadows(LeftShadowsOf(rSeeds, uiQueryLength)) }

\* the seeds of a strip
StripSeeds ==
    { Seed(q, l, r, TRUE) : q \in StripPositions, l \in 1..MaxSeedSize, r \in StripPositions }

InitSweep ==
    /\ pack = RefPack
    /\ appended = <<>>
    /\ res = NoResult
    /\ files = NoFiles
    /\ bAssert = FALSE
    /\ seeds \in Arrangements(StripSeeds, MaxStripSeeds)
    /\ stack = <<>>
    /\ log = <<>>
    /\ bDoDummyJumps = FALSE
    /\ NoAlignment
    /\ NoObjects

\* LineSweep::execute on the strip
LineSweepExecute ==
    /\ res = NoResult
    /\ \E r \in SweepResults(seeds, QueryLength, uiUnpackedSizeForwardPlusReverse(RefPack)) :
         /\ seeds' = r.seeds
         /\ res' = [op |-> "linesweep", pStrip |-> seeds, afterLeft |-> r.afterLeft]
    /\ UNCHANGED <<packVars, stack, log, bDoDummyJumps, alnVars, objVars>>

NextSweep == LineSweepExecute

SpecSweep == InitSweep /\ [][NextSweep]_vars

\* the seeds of rSeeds that are not in rKept
RemovedSeeds(rSeeds, rKept) == SeedSet(rSeeds) \ SeedSet(rKept)

\* rKept is what a sweep over the shadows vShadows of rSeeds keeps: the
\* seeds in their order, without those whose shadow lies within the shadow
\* of another seed that is kept
KeepsUndominated(rSeeds, vShadows, rKept) ==
    LET kept == { i \in 1..Len(rSeeds) : rSeeds[i] \in SeedSet(rKept) }
    IN  /\ rKept = SeedsWithout(rSeeds, (1..Len(rSeeds)) \ kept, 1)
        /\ \A i \in (1..Len(rSeeds)) \ kept :
              \E j \in kept : within(vShadows[i], vShadows[j])
        /\ \A i, j \in kept : i # j => ~within(vShadows[i], vShadows[j])

\* the strip of three seeds on a diagonal, the second within the first
ExampleStrip == <<Seed(0, 10, 0, TRUE), Seed(5, 3, 5, TRUE), Seed(20, 8, 20, TRUE)>>
ExampleStripSwept ==
    \A r \in SweepResults(ExampleStrip, 30, 200) :
        r.seeds = <<Seed(0, 10, 0, TRUE), Seed(20, 8, 20, TRUE)>>

\* C16 as stated: after both sweeps a seed of the strip is removed exactly
\* when its left shadow lies within the left shadow, or its right shadow
\* within the right shadow, of another seed of the strip.
C16_RemovedIffShadowContained ==
    /\ ExampleStripSwept
    /\ res.op = "linesweep" =>
         LET rIn == res.pStrip
             vLeft == LeftShadowsOf(rIn, QueryLength)
             vRight == RightShadowsOf(rIn, uiUnpackedSizeForwardPlusReverse(RefPack))
         IN  \A i \in 1..Len(rIn) :
                rIn[i] \in RemovedSeeds(rIn, seeds) <=>
                    \E j \in 1..Len(rIn) :
                        /\ j # i
                        /\ \/ within(vLeft[i], vLeft[j])
                           \/ within(vRight[i], vRight[j])

\* C16: the left sweep removes from the strip exactly the seeds whose left
\* shadow lies within the left shadow of another seed that it keeps, the
\* right sweep removes from what is left exactly the seeds whose right
\* shadow lies within the right shadow of another seed that it keeps; the
\* seeds that are kept stay in their order, and of the example strip the
\* second seed is removed.
C16_RemovedIffWithinKeptShadow ==
    /\ ExampleStripSwept
    /\ res.op = "linesweep" =>
         /\ KeepsUndominated(res.pStrip, LeftShadowsOf(res.pStrip, QueryLength), res.afterLeft)
         /\ KeepsUndominated(res.afterLeft,
                             RightShadowsOf(res.afterLeft, uiUnpackedSizeForwardPlusReverse(RefPack)),
                             seeds)

\* both sweeps have removed a seed of a strip of three seeds
C16_Witness ==
    /\ res.op = "linesweep"
    /\ Len(res.pStrip) = 3
    /\ Len(res.afterLeft) = 2
    /\ Len(seeds) = 1

(***************************************************************************)
(* The priority queue of the strips of consideration and the loop of       *)
(* Harmonization::execute over it.  A strip is an entry of vMaxima: its    *)
(* SoCOrder, the position itStrip of its first seed, which tells the       *)
(* strips apart, and the score that the harmonization of the strip gives.  *)
(***************************************************************************)
MaxStrips == 3
\* Harmonization::uiMaxTries
uiMaxTries == 3
\* HarmonizationSingle::uiMaxEqualScoreLookahead
uiMaxEqualScoreLookahead == 1
\* HarmonizationSingle::fScoreDiffTolerance, in percent
iScoreDiffTolerancePercent == 10

AccumulativeLengths == {1, 2}
SeedAmbiguities == {0, 1}
HarmonizedScores == {10, 20}

\* SoCOrder::operator< with the ambiguities compared the other way round
SoCOrderLessLowerAmbiguity(rThis, rOther) ==
    IF rThis.uiAccumulativeLength = rOther.uiAccumulativeLength
    THEN rThis.uiSeedAmbiguity < rOther.uiSeedAmbiguity
    ELSE rThis.uiAccumulativeLength < rOther.uiAccumulativeLength

\* SoCOrder::operator<
SoCOrderLess(rThis, rOther) ==
    IF rThis.uiAccumulativeLength = rOther.uiAccumulativeLength
    THEN rThis.uiSeedAmbiguity > rOther.uiSeedAmbiguity
    ELSE rThis.uiAccumulativeLength < rOther.uiAccumulativeLength

\* SoCPriorityQueue::heapOrder
heapOrder(rA, rB) == SoCOrderLess(rA, rB)

\* the range is a heap with respect to heapOrder: no element is ordered
\* before one of its two children
IsHeap(v) == \A i \in 2..Len(v) : ~heapOrder(v[i \div 2], v[i])

\* the elements of a vector
Elements(v) == { v[i] : i \in 1..Len(v) }

\* the vectors that hold the given elements, each once
VectorsOf(S) == { v \in Arrangements(S, Cardinality(S)) : Len(v) = Cardinality(S) }

\* std::make_heap: the elements of the range in one of the orders that are
\* a heap
MakeHeapResults(v) == { h \in VectorsOf(Elements(v)) : IsHeap(h) }

\* std::pop_heap and pop_back on a heap: the first element is taken out,
\* the others are in one of the orders that are a heap
PopHeapResults(v) == { h \in VectorsOf(Elements(v) \ {v[1]}) : IsHeap(h) }

\* the queues after the strips have been collected with
\* push_back_no_overlap
Strips ==
    { [uiAccumulativeLength |-> l, uiSeedAmbiguity |-> a, uiHarmonizedScore |-> sc] :
        l \in AccumulativeLengths, a \in SeedAmbiguities, sc \in HarmonizedScores }
RECURSIVE StripVectors(_)
StripVectors(n) ==
    IF n = 0 THEN {<<>>}
    ELSE LET shorter == StripVectors(n - 1)
         IN  shorter \cup
             { Append(v, [uiAccumulativeLength |-> x.uiAccumulativeLength,
                          uiSeedAmbiguity |-> x.uiSeedAmbiguity,
                          uiHarmonizedScore |-> x.uiHarmonizedScore,
                          itStrip |-> n]) :
                 v \in { w \in shorter : Len(w) = n - 1 }, x \in Strips }

InitSoC ==
    /\ pack = RefPack
    /\ appended = <<>>
    /\ res = NoResult
    /\ files = NoFiles
    /\ bAssert = FALSE
    /\ seeds = <<>>
    /\ stack = <<>>
    /\ log = <<>>
    /\ bDoDummyJumps = FALSE
    /\ pSegments = <<>>
    /\ uiMaxAmbiguitySv = 0
    /\ vMaxima \in StripVectors(MaxStrips)
    /\ harm = [uiNumTries |-> 0, pSoCs |-> <<>>, uiSoCIndex |-> 0]
    /\ NoObjects

\* SoCPriorityQueue::make_heap
make_heap ==
    /\ res = NoResult
    /\ vMaxima' \in MakeHeapResults(vMaxima)
    /\ res' = [op |-> "make_heap"]
    /\ UNCHANGED <<packVars, seeds, stack, log, bDoDummyJumps, pSegments, uiMaxAmbiguitySv, harm, objVars>>

\* SoCPriorityQueue::pop: the strip at the front with the index of the
\* strip, and the queue without it
pop(v, uiSoCIndex) ==
    { [pRet |-> [uiAccumulativeLength |-> v[1].uiAccumulativeLength,
                 uiSeedAmbiguity |-> v[1].uiSeedAmbiguity,
                 uiHarmonizedScore |-> v[1].uiHarmonizedScore,
                 itStrip |-> v[1].itStrip,
                 index_of_strip |-> uiSoCIndex],
       vMaxima |-> h] : h \in PopHeapResults(v) }

\* Harmonization::execute, one round of the loop: the next strip is taken
\* from the queue and the harmonized strip is appended to pSoCs
HarmonizationStep ==
    /\ res.op \in {"make_heap", "pop"}
    /\ harm.uiNumTries < uiMaxTries
    /\ vMaxima # <<>>
    /\ \E r \in pop(vMaxima, harm.uiSoCIndex) :
         /\ vMaxima' = r.vMaxima
         /\ harm' = [uiNumTries |-> harm.uiNumTries + 1,
                     pSoCs |-> Append(harm.pSoCs, r.pRet),
                     uiSoCIndex |-> harm.uiSoCIndex + 1]
         /\ res' = [op |-> "pop", pSoC |-> r.pRet, vMaxima |-> vMaxima]
    /\ UNCHANGED <<packVars, seeds, stack, log, bDoDummyJumps, pSegments, uiMaxAmbiguitySv, objVars>>

\* Harmonization::execute, the end of the loop: pSoCs is returned
HarmonizationReturns ==
    /\ res.op \in {"make_heap", "pop"}
    /\ ~(harm.uiNumTries < uiMaxTries /\ vMaxima # <<>>)
    /\ res' = [op |-> "harmonization", pSoCs |-> harm.pSoCs]
    /\ UNCHANGED <<packVars, seeds, stack, log, bDoDummyJumps, alnVars, objVars>>

NextSoC == make_heap \/ HarmonizationStep \/ HarmonizationReturns

SpecSoC == InitSoC /\ [][NextSoC]_vars

\* the largest of a set of numbers that is not empty
MaxOf(S) == CHOOSE x \in S : \A y \in S : y <= x

\* the score uiNew is more than the tolerance above the score uiBest
Improves(uiNew, uiBest) == uiNew * 100 > uiBest * (100 + iScoreDiffTolerancePercent)

\* after k strips none of the last uiMaxEqualScoreLookahead strips has
\* improved the best harmonized score of the strips before them
NoImprovementInWindow(pSoCs, k) ==
    /\ k > uiMaxEqualScoreLookahead
    /\ LET uiBest == MaxOf({ pSoCs[i].uiHarmonizedScore : i \in 1..(k - uiMaxEqualScoreLookahead) })
       IN  \A i \in (k - uiMaxEqualScoreLookahead + 1)..k :
              ~Improves(pSoCs[i].uiHarmonizedScore, uiBest)

\* C17: Harmonization::execute never processes more than uiMaxTries strips,
\* it processes no strip after a window of uiMaxEqualScoreLookahead strips
\* without an improvement of the harmonized score, and it stops only when
\* uiMaxTries strips are processed, such a window has passed or the queue
\* is empty.
C17_StopsOnMaxTriesOrEqualScores ==
    res.op \in {"pop", "harmonization"} =>
        /\ harm.uiNumTries <= uiMaxTries
        /\ Len(harm.pSoCs) = harm.uiNumTries
        /\ \A k \in 1..(harm.uiNumTries - 1) : ~NoImprovementInWindow(harm.pSoCs, k)
        /\ res.op = "harmonization" =>
              \/ harm.uiNumTries = uiMaxTries
              \/ vMaxima = <<>>
              \/ NoImprovementInWindow(harm.pSoCs, harm.uiNumTries)

\* the strip rA comes before the strip rB in the order of the strips, or
\* the two are equal in it: it has the larger accumulative length or, with
\* equal lengths, not the higher ambiguity
NotAfter(rA, rB) ==
    \/ rA.uiAccumulativeLength > rB.uiAccumulativeLength
    \/ /\ rA.uiAccumulativeLength = rB.uiAccumulativeLength
       /\ rA.uiSeedAmbiguity <= rB.uiSeedAmbiguity

\* the entry of the queue that pop has returned as the strip pSoC
EntryOf(pSoC) ==
    [uiAccumulativeLength |-> pSoC.uiAccumulativeLength,
     uiSeedAmbiguity |-> pSoC.uiSeedAmbiguity,
     uiHarmonizedScore |-> pSoC.uiHarmonizedScore,
     itStrip |-> pSoC.itStrip]

\* C18: after make_heap the strips that pop has returned so far are in
\* SoCOrder, accumulative length not increasing and, with equal lengths,
\* ambiguity not decreasing, none of the strips still in the queue comes
\* before one of them, and a pop takes out of the queue the strip that it
\* returns and no other.
C18_PopsInSoCOrder ==
    /\ \A i, j \in 1..Len(harm.pSoCs) : i < j => NotAfter(harm.pSoCs[i], harm.pSoCs[j])
    /\ res.op \in {"pop", "harmonization"} =>
          \A i \in 1..Len(harm.pSoCs) : \A j \in 1..Len(vMaxima) :
              NotAfter(harm.pSoCs[i], vMaxima[j])
    /\ res.op = "pop" =>
          /\ res.pSoC = harm.pSoCs[Len(harm.pSoCs)]
          /\ res.pSoC.index_of_strip = Len(harm.pSoCs) - 1
          /\ EntryOf(res.pSoC) \in Elements(res.vMaxima)
          /\ Elements(vMaxima) = Elements(res.vMaxima) \ {EntryOf(res.pSoC)}
          /\ Len(vMaxima) = Len(res.vMaxima) - 1

\* three strips have been returned: two of equal accumulative length and
\* different ambiguity, then a shorter one
C18_Witness ==
    /\ res.op = "pop"
    /\ Len(harm.pSoCs) = 3
    /\ harm.pSoCs[1].uiAccumulativeLength = harm.pSoCs[2].uiAccumulativeLength
    /\ harm.pSoCs[1].uiSeedAmbiguity < harm.pSoCs[2].uiSeedAmbiguity
    /\ harm.pSoCs[2].uiAccumulativeLength > harm.pSoCs[3].uiAccumulativeLength
    /\ harm.pSoCs[1].itStrip = 3

(***************************************************************************)
(* The lumping of seeds.                                                   *)
(***************************************************************************)
MaxLumpSeeds == 3

\* the seeds that the lumper is given, on both strands
LumpSeeds ==
    { Seed(q, l, r, b) : q \in StripPositions, l \in 1..MaxSeedSize,
                         r \in StripPositions, b \in BOOLEAN }

\* the vectors of at most n seeds; a seed can be in a vector more than once
RECURSIVE SeedVectors(_)
SeedVectors(n) ==
    IF n = 0 THEN {<<>>}
    ELSE LET shorter == SeedVectors(n - 1)
         IN  shorter \cup { Append(v, x) : v \in { w \in shorter : Len(w) = n - 1 },
                                           x \in LumpSeeds }

InitLump ==
    /\ pack = RefPack
    /\ appended = <<>>
    /\ res = NoResult
    /\ files = NoFiles
    /\ bAssert = FALSE
    /\ seeds \in SeedVectors(MaxLumpSeeds)
    /\ stack = <<>>
    /\ log = <<>>
    /\ bDoDummyJumps = FALSE
    /\ NoAlignment
    /\ NoObjects

\* SvJumpsFromSeeds::computeSeeds with the seeds of the two rectangles in
\* pSeeds: no seeds are returned as they are, others are lumped
LumpComputedSeeds ==
    /\ res = NoResult
    /\ seeds' = IF Len(seeds) = 0 THEN seeds ELSE SeedLumpingExecute(seeds)
    /\ res' = [op |-> "lump", pIn |-> seeds]
    /\ UNCHANGED <<packVars, stack, log, bDoDummyJumps, alnVars, objVars>>

NextLump == LumpComputedSeeds

SpecLump == InitLump /\ [][NextLump]_vars

\* C19: the seeds that the lumper returns are all different in query
\* start, reference start, size and strand, whatever the order of the
\* seeds that it is given.
C19_NoIdenticalSeedsAfterLumping ==
    res.op = "lump" =>
        \A i, j \in 1..Len(seeds) : i # j => seeds[i] # seeds[j]

(***************************************************************************)
(* The order of the seeds.                                                 *)
(***************************************************************************)
\* the seeds with all the members that the comparison reads
OrderedSeeds ==
    { [iStart |-> q, iSize |-> l, uiPosOnReference |-> r, bOnForwStrand |-> b,
       uiAmbiguity |-> a, uiSoCNt |-> t[1], uiDelta |-> t[2]] :
        q \in StripPositions, l \in {1, 2}, r \in StripPositions, b \in BOOLEAN,
        a \in {0, 1}, t \in {<<0, 1>>, <<1, 0>>} }

\* a comparison that looks at the reference position first
SeedLessByReference(rThis, rxOther) ==
    IF start_ref(rThis) # start_ref(rxOther) THEN start_ref(rThis) < start_ref(rxOther)
    ELSE IF start(rThis) # start(rxOther) THEN start(rThis) < start(rxOther)
    ELSE IF rThis.iSize # rxOther.iSize THEN rThis.iSize < rxOther.iSize
    ELSE IF rThis.bOnForwStrand # rxOther.bOnForwStrand THEN rThis.bOnForwStrand
    ELSE IF rThis.uiAmbiguity # rxOther.uiAmbiguity THEN rThis.uiAmbiguity < rxOther.uiAmbiguity
    ELSE FALSE

\* Seed::operator<
SeedLess(rThis, rxOther) ==
    IF start(rThis) # start(rxOther) THEN start(rThis) < start(rxOther)
    ELSE IF start_ref(rThis) # start_ref(rxOther) THEN start_ref(rThis) < start_ref(rxOther)
    ELSE IF rThis.iSize # rxOther.iSize THEN rThis.iSize < rxOther.iSize
    ELSE IF rThis.bOnForwStrand # rxOther.bOnForwStrand THEN rThis.bOnForwStrand
    ELSE IF rThis.uiAmbiguity # rxOther.uiAmbiguity THEN rThis.uiAmbiguity < rxOther.uiAmbiguity
    ELSE IF rThis.uiSoCNt # rxOther.uiSoCNt THEN rThis.uiSoCNt < rxOther.uiSoCNt
    ELSE IF rThis.uiDelta # rxOther.uiDelta THEN rThis.uiDelta < rxOther.uiDelta
    ELSE FALSE

InitOrder ==
    /\ pack = RefPack
    /\ appended = <<>>
    /\ res = NoResult
    /\ files = NoFiles
    /\ bAssert = FALSE
    /\ seeds \in [1..3 -> OrderedSeeds]
    /\ stack = <<>>
    /\ log = <<>>
    /\ bDoDummyJumps = FALSE
    /\ NoAlignment
    /\ NoObjects

\* Seed::operator< on each pair of the three seeds
CompareSeeds ==
    /\ res = NoResult
    /\ res' = [op |-> "compare",
               bLess |-> [i \in 1..3 |-> [j \in 1..3 |-> SeedLess(seeds[i], seeds[j])]]]
    /\ UNCHANGED <<packVars, seeds, stack, log, bDoDummyJumps, alnVars, objVars>>

NextOrder == CompareSeeds

SpecOrder == InitOrder /\ [][NextOrder]_vars

\* the five fields of the order of a seed, each as a number that is
\* smaller for the seed that comes first: a seed on the forward strand
\* comes before one on the reverse strand
OrderKey(rSeed) ==
    <<rSeed.iStart, rSeed.uiPosOnReference, rSeed.iSize,
      IF rSeed.bOnForwStrand THEN 0 ELSE 1, rSeed.uiAmbiguity>>

\* the first of the five fields in which two seeds differ
FirstDifference(rA, rB) ==
    CHOOSE k \in 1..5 :
        /\ OrderKey(rA)[k] # OrderKey(rB)[k]
        /\ \A m \in 1..(k - 1) : OrderKey(rA)[m] = OrderKey(rB)[m]

\* C20: the comparison of seeds is irreflexive, asymmetric and transitive,
\* and of two seeds that differ in query start, reference start, size,
\* strand or ambiguity the one that comes first is the one with the smaller
\* value (for the strand: the forward one) in the first of these fields in
\* which they differ.
C20_SeedOrderLexicographic ==
    res.op = "compare" =>
        /\ \A i \in 1..3 : ~res.bLess[i][i]
        /\ \A i, j \in 1..3 : res.bLess[i][j] => ~res.bLess[j][i]
        /\ \A i, j, k \in 1..3 : res.bLess[i][j] /\ res.bLess[j][k] => res.bLess[i][k]
        /\ \A i, j \in 1..3 :
              OrderKey(seeds[i]) # OrderKey(seeds[j]) =>
                  LET k == FirstDifference(seeds[i], seeds[j])
                  IN  res.bLess[i][j] <=> OrderKey(seeds[i])[k] < OrderKey(seeds[j])[k]

\* three seeds are compared: the first two differ first in the strand, the
\* second has the lower ambiguity, and the third begins behind both
C20_Witness ==
    /\ res.op = "compare"
    /\ OrderKey(seeds[1]) # OrderKey(seeds[2])
    /\ FirstDifference(seeds[1], seeds[2]) = 4
    /\ seeds[1].bOnForwStrand
    /\ seeds[2].uiAmbiguity < seeds[1].uiAmbiguity
    /\ res.bLess[1][2]
    /\ res.bLess[2][3]
    /\ res.bLess[1][3]

(***************************************************************************)
(* Threads in SvJumpsFromSeeds::execute on one module.  The source has two *)
(* versions of the function: part_009, with the filter of the ambiguous    *)
(* segments and its counters compiled in, and part_000, with the filter    *)
(* compiled out.  The loop of execute and every call of                    *)
(* makeJumpsByReseedingRecursive is a frame of the stack of its thread.    *)
(***************************************************************************)
Threads == {1, 2}
MaxReadSegments == 2
\* the number of the calls of the reads whose reseeding finds a seed
MaxReseeds == 1

\* the segments of the reads of the threads
ThreadSegments ==
    { Segment(q, l, sa) : q \in {0, 1}, l \in {uiMinSeedSizeSV - 1, uiMinSeedSizeSV},
                          sa \in {<<0>>, <<1, 0>>} }
Reads ==
    { a \in Arrangements(ThreadSegments, MaxReadSegments) :
        \A i, j \in 1..Len(a) : i # j => a[i].iStart # a[j].iStart }

\* the seeds of a read and the number of the occurrences of its segments,
\* in the version of the module
SeedsOfRead(sVersion, rSegments) ==
    IF sVersion = "part_009"
    THEN FilterOnReference(rSegments)
    ELSE [vSeeds |-> SeedsOfExecuteHelper(rSegments), uiNumSeedsTotal |-> 0]

\* a reference to the member xDummySeed: the calls get their seeds by
\* reference and know the sentinel by its address
ReferenceToDummySeed == [bDummy |-> TRUE]

\* the frame of a call of makeJumpsByReseedingRecursive for the pair
\* ( rLast, rNext ) of references; the loop of execute is the frame of
\* layer 0.  In part_009 rLast refers to the member xDummySeed in every
\* call.
ThreadCall(rLast, rNext, uiLayer) ==
    [ rLast |-> rLast, rNext |-> rNext, uiLayer |-> uiLayer,
      pc |-> "call", pvSeeds |-> <<>>, uiNext |-> 1, uiCopied |-> 0 ]

\* a thread that has entered execute with its read
ThreadAtStart(rSegments) ==
    [pc |-> "seeds", pSegments |-> rSegments, vSeeds |-> <<>>, uiNumSeedsTotal |-> 0,
     uiLoaded |-> 0, calls |-> <<>>, uiReseeded |-> 0]

\* the reads of the threads: the last thread has a read of up to
\* MaxReadSegments segments, the others a read with one segment less
ReadsOfThreads ==
    { f \in [Threads -> { ThreadAtStart(r) : r \in Reads }] :
        \A t \in Threads :
            (\E u \in Threads : u > t) => Len(f[t].pSegments) < MaxReadSegments }

InitThreads ==
    /\ pack = RefPack
    /\ appended = <<>>
    /\ res = NoResult
    /\ files = NoFiles
    /\ bAssert = FALSE
    /\ seeds = <<>>
    /\ stack = <<>>
    /\ log = <<>>
    /\ bDoDummyJumps = FALSE
    /\ NoAlignment
    /\ shared \in Modules({"part_009", "part_000"})
    /\ threads \in ReadsOfThreads
    /\ nucSeq = NoNucSeq
    /\ uiLastEnd = 0

\* what no step of a thread changes
ThreadFrame ==
    UNCHANGED <<packVars, res, svVars, alnVars, nucSeq, uiLastEnd>>

\* a thread has ended the process
Crashed == \E t \in Threads : threads[t].pc = "crashed"

\* the frame of the loop of execute over the seeds of the read
ExecuteLoop(vSeeds, sPc) ==
    [ThreadCall(ReferenceToDummySeed, ReferenceToDummySeed, 0)
        EXCEPT !.pc = sPc, !.pvSeeds = vSeeds]

\* execute up to the counters: the segments of the read are sorted in
\* place and the seeds are computed.  part_000 filters the seeds, sorts
\* what is left by the start on the query and goes on with the loop over
\* the filtered seeds.
ComputeSeedsOfRead(t) ==
    /\ ~Crashed
    /\ threads[t].pc = "seeds"
    /\ LET r == SeedsOfRead(shared.sVersion, threads[t].pSegments)
           xFiltered == UNION { SortedSeeds(pFiltered) :
                                  pFiltered \in ParlindromeFilterExecute(r.vSeeds) }
       IN  \E pFilteredSeeds \in xFiltered :
              threads' = [threads EXCEPT
                             ![t].pc = IF shared.sVersion = "part_009" THEN "lock" ELSE "jumps",
                             ![t].pSegments = SortedByStart(threads[t].pSegments),
                             ![t].vSeeds = r.vSeeds,
                             ![t].uiNumSeedsTotal = r.uiNumSeedsTotal,
                             ![t].calls = IF shared.sVersion = "part_009" THEN <<>>
                                          ELSE <<ExecuteLoop(pFilteredSeeds, "loop")>>]
    /\ UNCHANGED shared
    /\ ThreadFrame

\* a lock that any thread gets at any time
LockWithoutWaiting(t) ==
    /\ ~Crashed
    /\ threads[t].pc = "lock"
    /\ shared' = [shared EXCEPT !.xLock = t]
    /\ threads' = [threads EXCEPT ![t].pc = "load eliminated"]
    /\ ThreadFrame

\* std::lock_guard<std::mutex> xGuard( xLock )
Lock(t) ==
    /\ ~Crashed
    /\ threads[t].pc = "lock"
    /\ shared.xLock = 0
    /\ shared' = [shared EXCEPT !.xLock = t]
    /\ threads' = [threads EXCEPT ![t].pc = "load eliminated"]
    /\ ThreadFrame

\* uiNumSeedsEliminatedAmbiguityFilter += uiNumSeedsTotal - vSeeds.size( ):
\* the counter is read, then written
LoadEliminated(t) ==
    /\ ~Crashed
    /\ threads[t].pc = "load eliminated"
    /\ threads' = [threads EXCEPT ![t].pc = "store eliminated",
                                  ![t].uiLoaded = shared.uiNumSeedsEliminatedAmbiguityFilter]
    /\ UNCHANGED shared
    /\ ThreadFrame

StoreEliminated(t) ==
    /\ ~Crashed
    /\ threads[t].pc = "store eliminated"
    /\ shared' = [shared EXCEPT !.uiNumSeedsEliminatedAmbiguityFilter =
                     threads[t].uiLoaded + threads[t].uiNumSeedsTotal - Len(threads[t].vSeeds)]
    /\ threads' = [threads EXCEPT ![t].pc = "load kept"]
    /\ ThreadFrame

\* uiNumSeedsKeptAmbiguityFilter += vSeeds.size( )
LoadKept(t) ==
    /\ ~Crashed
    /\ threads[t].pc = "load kept"
    /\ threads' = [threads EXCEPT ![t].pc = "store kept",
                                  ![t].uiLoaded = shared.uiNumSeedsKeptAmbiguityFilter]
    /\ UNCHANGED shared
    /\ ThreadFrame

\* the counter is written and the guard leaves its scope; the next
\* statement of execute inserts the coverage of the seeds of the read
StoreKeptAndUnlock(t) ==
    /\ ~Crashed
    /\ threads[t].pc = "store kept"
    /\ shared' = [shared EXCEPT !.uiNumSeedsKeptAmbiguityFilter =
                                    threads[t].uiLoaded + Len(threads[t].vSeeds),
                                !.xLock = IF shared.xLock = t THEN 0 ELSE shared.xLock]
    /\ threads' = [threads EXCEPT ![t].pc = "jumps",
                                  ![t].calls = <<ExecuteLoop(threads[t].vSeeds, "insert")>>]
    /\ ThreadFrame

\* the call on top of the stack of the thread
TopCall(t) == Back(threads[t].calls)

\* the thread is in the call on top of its stack at sPc
InCall(t, sPc) ==
    /\ ~Crashed
    /\ threads[t].pc = "jumps"
    /\ threads[t].calls # <<>>
    /\ TopCall(t).pc = sPc

\* the thread with the call on top at sPc
WithTopAt(xThread, sPc) ==
    [xThread EXCEPT !.calls[Len(xThread.calls)].pc = sPc]

\* the call on top returns.  A caller that has made the call after its
\* loop returns as well; with the return of the loop of execute the read
\* is finished
RECURSIVE ReturnFromCall(_)
ReturnFromCall(xThread) ==
    LET calls == SubSeq(xThread.calls, 1, Len(xThread.calls) - 1)
        xReturned == [xThread EXCEPT !.calls = calls]
    IN  IF calls = <<>> THEN [xReturned EXCEPT !.pc = "returned"]
        ELSE IF Back(calls).pc = "last" THEN ReturnFromCall(xReturned)
        ELSE xReturned

\* the seeds that the reseeding of a call of a thread can find
ReseededSeeds == { <<>>, <<Seed(0, 1, 0, TRUE)>> }

\* the number of the seeds that the calls of the threads in T have found
RECURSIVE Reseeded(_)
Reseeded(T) ==
    IF T = {} THEN 0
    ELSE LET t == CHOOSE u \in T : TRUE
         IN  threads[t].uiReseeded + Reseeded(T \ {t})

\* xCoverageInserter.insert( ) of part_009, in execute and in
\* makeJumpsByReseedingRecursive, locks the database: the thread waits
\* until no other thread is inserting
InsertCoverage(t) ==
    /\ InCall(t, "insert")
    /\ shared.xDatabaseLock = 0
    /\ shared' = [shared EXCEPT !.xDatabaseLock = t]
    /\ threads' = [threads EXCEPT ![t] = WithTopAt(threads[t], "inserted")]
    /\ ThreadFrame

\* makeJumpsByReseedingRecursive of part_009 up to the call of
\* xCoverageInserter.insert( ).  The rectangle of the pair and the smallest
\* seed size of the seeder decide whether there is enough space to reseed:
\* the call returns without a jump, or it reseeds and sorts the seeds.
MakeJumpsByReseeding(t, bEnoughSpace, pvSeeds) ==
    /\ InCall(t, "call")
    /\ shared.sVersion = "part_009"
    /\ bEnoughSpace \/ pvSeeds = <<>>
    /\ Reseeded(Threads) + Len(pvSeeds) <= MaxReseeds
    /\ threads' = [threads EXCEPT ![t] =
            IF ~bEnoughSpace THEN ReturnFromCall(threads[t])
            ELSE [WithTopAt(threads[t], "insert") EXCEPT
                     !.calls[Len(threads[t].calls)].pvSeeds = pvSeeds,
                     !.uiReseeded = threads[t].uiReseeded + Len(pvSeeds)]]
    /\ UNCHANGED shared
    /\ ThreadFrame

\* the coverage is inserted and the database is free again.  execute and a
\* call with new seeds go on with the loop over the seeds.
LoopOverSeeds(t) ==
    /\ InCall(t, "inserted")
    /\ TopCall(t).uiLayer = 0 \/ TopCall(t).pvSeeds # <<>>
    /\ shared' = [shared EXCEPT !.xDatabaseLock = 0]
    /\ threads' = [threads EXCEPT ![t] = WithTopAt(threads[t], "loop")]
    /\ ThreadFrame

\* what the test of vSeeds->back( ).end( ) + uiMinDistDummy against the
\* length of the query can give: vSeeds is empty, so back( ) is a seed in
\* front of the memory of the vector; the read of it ends the process or
\* gives any value
BackOfEmptyOutcomes == {"abort", "less", "not less"}

\* the coverage is inserted and the database is free again.  A call
\* without new seeds of part_009 makes its jumps and returns: rLast is the
\* member xDummySeed, so the jump of rLast is never made and the jump of a
\* real rNext depends on vSeeds->back( ), xBack being the outcome.  The
\* jumps are appended to pRet, which is local to the thread and not kept
\* in the state.
DummyJumpsOfCall(t, xBack) ==
    /\ InCall(t, "inserted")
    /\ TopCall(t).uiLayer > 0 /\ TopCall(t).pvSeeds = <<>>
    /\ xBack \in (IF TopCall(t).rNext.bDummy THEN {"not less"} ELSE BackOfEmptyOutcomes)
    /\ shared' = [shared EXCEPT !.xDatabaseLock = 0]
    /\ threads' = [threads EXCEPT ![t] =
            IF xBack = "abort" THEN [threads[t] EXCEPT !.pc = "crashed"]
            ELSE ReturnFromCall(threads[t])]
    /\ ThreadFrame

\* makeJumpsByReseedingRecursive of part_000: the call and the calls nested
\* in it work on pRet, on the seeds of their own vectors and on the pointer
\* pCurr, whatever the reseeding finds; no member of the module is written
\* and no lock is taken.  The call returns.
MakeJumpsOfPair(t) ==
    /\ InCall(t, "call")
    /\ shared.sVersion = "part_000"
    /\ threads' = [threads EXCEPT ![t] = ReturnFromCall(threads[t])]
    /\ UNCHANGED shared
    /\ ThreadFrame

\* the seed that the loop of the call on top has reached last: in part_000
\* pCurr points to it, in part_009 rCurr refers to the member xDummySeed
CurrentSeed(t) ==
    IF shared.sVersion = "part_009" THEN ReferenceToDummySeed
    ELSE IF TopCall(t).uiNext = 1 THEN TopCall(t).rLast
    ELSE TopCall(t).pvSeeds[TopCall(t).uiNext - 1]

\* the fields of a seed in the order in which Seed::operator= copies them
SeedFields == <<"iStart", "iSize", "uiPosOnReference", "bOnForwStrand">>

\* one round of the loop over the seeds: the call for rCurr and the seed,
\* then the seed becomes the current one.  In part_000 pCurr is a pointer
\* that is set to the seed.  In part_009 rCurr is a reference to xDummySeed
\* and the assignment rCurr = rSeed, which follows the return of the call,
\* copies the seed into the member.
JumpsOfNextSeed(t) ==
    /\ InCall(t, "loop")
    /\ TopCall(t).uiNext <= Len(TopCall(t).pvSeeds)
    /\ threads' = [threads EXCEPT ![t].calls =
            Append(IF shared.sVersion = "part_009"
                   THEN WithTopAt(threads[t], "copy").calls
                   ELSE [threads[t].calls EXCEPT
                            ![Len(threads[t].calls)].uiNext = TopCall(t).uiNext + 1],
                   ThreadCall(CurrentSeed(t), TopCall(t).pvSeeds[TopCall(t).uiNext],
                              TopCall(t).uiLayer + 1))]
    /\ UNCHANGED shared
    /\ ThreadFrame

\* rCurr = rSeed of part_009: Seed::operator= writes the next field of
\* xDummySeed.  No lock is held, so the writes of the threads interleave.
\* The address of the member stays the address of the sentinel.
CopySeedField(t) ==
    /\ InCall(t, "copy")
    /\ shared' = [shared EXCEPT !.xDummySeed[SeedFields[TopCall(t).uiCopied + 1]] =
                     TopCall(t).pvSeeds[TopCall(t).uiNext][SeedFields[TopCall(t).uiCopied + 1]]]
    /\ threads' = [threads EXCEPT ![t].calls[Len(threads[t].calls)] =
            IF TopCall(t).uiCopied + 1 = Len(SeedFields)
            THEN [@ EXCEPT !.pc = "loop", !.uiNext = @ + 1, !.uiCopied = 0]
            ELSE [@ EXCEPT !.uiCopied = @ + 1]]
    /\ ThreadFrame

\* the call after the loop, for rCurr and rNext; the caller returns when
\* it has returned
JumpsOfLastSeed(t) ==
    /\ InCall(t, "loop")
    /\ TopCall(t).uiNext > Len(TopCall(t).pvSeeds)
    /\ threads' = [threads EXCEPT ![t].calls =
            Append(WithTopAt(threads[t], "last").calls,
                   ThreadCall(CurrentSeed(t), TopCall(t).rNext, TopCall(t).uiLayer + 1))]
    /\ UNCHANGED shared
    /\ ThreadFrame

NextThreads ==
    \E t \in Threads :
        \/ ComputeSeedsOfRead(t)
        \/ Lock(t)
        \/ LoadEliminated(t)
        \/ StoreEliminated(t)
        \/ LoadKept(t)
        \/ StoreKeptAndUnlock(t)
        \/ InsertCoverage(t)
        \/ \E bEnoughSpace \in BOOLEAN, pvSeeds \in ReseededSeeds :
              MakeJumpsByReseeding(t, bEnoughSpace, pvSeeds)
        \/ LoopOverSeeds(t)
        \/ \E xBack \in BackOfEmptyOutcomes : DummyJumpsOfCall(t, xBack)
        \/ MakeJumpsOfPair(t)
        \/ JumpsOfNextSeed(t)
        \/ CopySeedField(t)
        \/ JumpsOfLastSeed(t)

SpecThreads == InitThreads /\ [][NextThreads]_vars

\* C21: no read writes to the sentinel of the module: xDummySeed has a
\* value that the constructor can have given it, in every state of every
\* thread.
C21_DummySeedKeepsInitialValue ==
    xDummySeed \in DummySeedValues

\* the occurrences of the segments of a read that have at least
\* uiMinSeedSizeSV bases
RECURSIVE OccurrencesOfRead(_)
OccurrencesOfRead(rSegments) ==
    IF rSegments = <<>> THEN 0
    ELSE (IF Head(rSegments).iSize >= uiMinSeedSizeSV
          THEN Len(Head(rSegments).saInterval) ELSE 0)
         + OccurrencesOfRead(Tail(rSegments))

\* the occurrences of the reads of the threads in T
RECURSIVE OccurrencesOfThreads(_)
OccurrencesOfThreads(T) ==
    IF T = {} THEN 0
    ELSE LET t == CHOOSE t \in T : TRUE
         IN  OccurrencesOfRead(threads[t].pSegments) + OccurrencesOfThreads(T \ {t})

AllReturned == \A t \in Threads : threads[t].pc = "returned"

\* the thread is between the lock and the end of the scope of the guard
AtCounters(t) ==
    threads[t].pc \in {"load eliminated", "store eliminated", "load kept", "store kept"}

\* C22 as stated: when all reads are finished, the two counters add up to
\* the number of occurrences of the segments of all reads that have at
\* least uiMinSeedSizeSV bases.
C22_CountersAddUpToOccurrences ==
    AllReturned =>
        shared.uiNumSeedsKeptAmbiguityFilter + shared.uiNumSeedsEliminatedAmbiguityFilter
            = OccurrencesOfThreads(Threads)

\* C22: a thread is at the counters only while it holds the mutex, so at
\* most one thread is; in the version with the filter (part_009) the
\* counters add up to the occurrences of the segments of all finished
\* reads that are long enough, whatever the order of the threads; in the
\* version without the filter (part_000) they are never written and stay 0.
C22_CountersUnderMutex ==
    /\ \A t \in Threads : AtCounters(t) => shared.xLock = t
    /\ \A t, u \in Threads : AtCounters(t) /\ AtCounters(u) => t = u
    /\ AllReturned =>
          /\ shared.xLock = 0
          /\ shared.uiNumSeedsKeptAmbiguityFilter + shared.uiNumSeedsEliminatedAmbiguityFilter
                = IF shared.sVersion = "part_009" THEN OccurrencesOfThreads(Threads) ELSE 0
          /\ shared.sVersion = "part_009" =>
                shared.uiNumSeedsKeptAmbiguityFilter
                    = Len(threads[1].vSeeds) + Len(threads[2].vSeeds)

\* both threads have counted a read with an ambiguous segment, one right
\* after the other, and have returned
C22_Witness ==
    /\ AllReturned
    /\ shared.sVersion = "part_009"
    /\ shared.uiNumSeedsEliminatedAmbiguityFilter >= 2
    /\ shared.uiNumSeedsKeptAmbiguityFilter >= 3

(***************************************************************************)
(* The holes of the pack.                                                  *)
(***************************************************************************)
\* C23: after any appends every hole of the pack has at least one symbol
\* and ends within the forward strand, and each hole begins at or behind
\* the end of the hole before it in the vector of the holes.
C23_HolesSortedAndDisjoint ==
    LET holes == pack.xVectorOfHoleDescriptors
    IN  /\ \A i \in 1..Len(holes) :
              /\ holes[i].length >= 1
              /\ holes[i].offset >= 0
              /\ holes[i].offset + holes[i].length <= pack.uiUnpackedSizeForwardStrand
        /\ \A i \in 1..(Len(holes) - 1) :
              holes[i].offset + holes[i].length <= holes[i + 1].offset

\* two contigs are in the pack: the first ends with a hole of more than
\* one symbol, the second begins with a hole
C23_Witness ==
    LET holes == pack.xVectorOfHoleDescriptors
    IN  /\ Len(pack.xVectorOfSequenceDescriptors) = 2
        /\ Len(holes) >= 2
        /\ holes[1].length >= 2
        /\ holes[1].offset + holes[1].length = holes[2].offset
        /\ holes[2].offset = pack.xVectorOfSequenceDescriptors[2].uiStartOffsetUnpacked

\* ---------------------------------------------------------------------
\* Gap filling between the seeds of a strip (src/needlemanWunsch.cpp)
\* ---------------------------------------------------------------------

iDeletion == -50
iInsertion == -50
iDeletionContinued == -1
iInsertionContinued == -1
iMatch == 20
iMissMatch == -5

\* nucSeqIndex is uint64_t; the coordinates of the model stay below 16, so
\* a difference that wraps is told from one that does not by this modulus
\* as well as by 2^64
nucSeqIndexRange == 1048576

\* the value of an expression of type nucSeqIndex
AsNucSeqIndex(x) == x % nucSeqIndexRange

\* int iY = <nucSeqIndex>: the conversion keeps the value modulo the range
\* of the type and reads it as a signed number
AsInt(x) == IF x >= nucSeqIndexRange \div 2 THEN x - nucSeqIndexRange ELSE x

\* pAlignment->append( type, n ): n columns of one type
AppendRun(pAlignment, type, n) == pAlignment \o [k \in 1..n |-> type]

\* one cell of the tables s and dir in the double loop of needlemanWunsch
NwCell(tab, pQuery, pRef, fromQuery, toQuery, toRef, uiI, uiJ) ==
    LET up == tab[<<uiI - 1, uiJ>>]
        left == tab[<<uiI, uiJ - 1>>]
        ins == IF up.dir = 2 THEN up.s + iInsertionContinued ELSE up.s + iInsertion
        del == IF fromQuery = 0 /\ uiI = toQuery - fromQuery THEN left.s
               ELSE IF left.dir = 3 THEN left.s + iDeletionContinued
               ELSE left.s + iDeletion
        gap == IF del > ins THEN [s |-> del, dir |-> 3] ELSE [s |-> ins, dir |-> 2]
        newScore == tab[<<uiI - 1, uiJ - 1>>].s
                    + (IF pQuery[toQuery - uiI + 1] = pRef[toRef - uiJ + 1]
                       THEN iMatch ELSE iMissMatch)
    IN  IF newScore >= gap.s THEN [s |-> newScore, dir |-> 1] ELSE gap

\* the first row and the first column of the tables
NwBorder(tab, uiI, uiJ) ==
    IF uiI = 0 /\ uiJ = 0 THEN [s |-> 0, dir |-> 1]
    ELSE IF uiJ = 0
         THEN [s |-> IF uiI = 1 THEN iInsertion
                     ELSE tab[<<uiI - 1, 0>>].s + iInsertionContinued,
               dir |-> 2]
         ELSE [s |-> IF uiJ = 1 THEN iDeletion
                     ELSE tab[<<0, uiJ - 1>>].s + iDeletionContinued,
               dir |-> 3]

\* the tables filled row by row; cell k is in row k \div ( m + 1 )
RECURSIVE NwFill(_, _, _, _, _, _, _, _)
NwFill(tab, k, pQuery, pRef, fromQuery, toQuery, fromRef, toRef) ==
    LET n == toQuery - fromQuery
        m == toRef - fromRef
        uiI == k \div (m + 1)
        uiJ == k % (m + 1)
        cell == IF uiI = 0 \/ uiJ = 0 THEN NwBorder(tab, uiI, uiJ)
                ELSE NwCell(tab, pQuery, pRef, fromQuery, toQuery, toRef, uiI, uiJ)
    IN  IF k >= (n + 1) * (m + 1) THEN tab
        ELSE NwFill(tab @@ (<<uiI, uiJ>> :> cell), k + 1,
                    pQuery, pRef, fromQuery, toQuery, fromRef, toRef)

\* the walk back from the last cell to cell ( 0, 0 )
RECURSIVE NwBacktrack(_, _, _, _, _, _, _)
NwBacktrack(tab, pQuery, pRef, toQuery, toRef, iX, iY) ==
    IF ~(iX > 0 \/ iY > 0) THEN <<>>
    ELSE IF tab[<<iX, iY>>].dir = 1
         THEN <<IF pQuery[toQuery - iX + 1] = pRef[toRef - iY + 1]
                THEN "match" ELSE "missmatch">>
              \o NwBacktrack(tab, pQuery, pRef, toQuery, toRef, iX - 1, iY - 1)
    ELSE IF tab[<<iX, iY>>].dir = 3
         THEN <<"deletion">>
              \o NwBacktrack(tab, pQuery, pRef, toQuery, toRef, iX, iY - 1)
    ELSE <<"insertion">>
         \o NwBacktrack(tab, pQuery, pRef, toQuery, toRef, iX - 1, iY)

\* needlemanWunsch( pQuery, pRef, fromQuery, toQuery, fromRef, toRef,
\* pAlignment ): the columns it appends.  bDefined is FALSE when the tables
\* reach beyond the two sequences, which the code does not test.
needlemanWunsch(pQuery, pRef, fromQuery, toQuery, fromRef, toRef) ==
    IF toRef <= fromRef /\ toQuery <= fromQuery
    THEN [bDefined |-> TRUE, columns |-> <<>>]
    ELSE IF toQuery <= fromQuery
    THEN LET iY == AsInt(AsNucSeqIndex(toRef - fromRef))
         IN  [bDefined |-> TRUE,
              columns |-> AppendRun(<<>>, "deletion", IF iY > 0 THEN iY ELSE 0)]
    ELSE IF toRef <= fromRef
    THEN LET iX == AsInt(AsNucSeqIndex(toQuery - fromQuery))
         IN  [bDefined |-> TRUE,
              columns |-> AppendRun(<<>>, "insertion", IF iX > 0 THEN iX ELSE 0)]
    ELSE IF toQuery > Len(pQuery) \/ toRef > Len(pRef)
    THEN [bDefined |-> FALSE, columns |-> <<>>]
    ELSE LET tab == NwFill(<<>>, 0, pQuery, pRef, fromQuery, toQuery, fromRef, toRef)
         IN  [bDefined |-> TRUE,
              columns |-> NwBacktrack(tab, pQuery, pRef, toQuery, toRef,
                                      toQuery - fromQuery, toRef - fromRef)]

\* the comparison of the sort in NeedlemanWunsch::execute
NwSeedLess(xA, xB) ==
    IF start(xA) = start(xB) THEN start_ref(xA) < start_ref(xB)
    ELSE start(xA) < start(xB)

\* std::list::sort is stable: of the seeds that no other seed precedes the
\* first one of the list comes first
RECURSIVE NwSorted(_)
NwSorted(rSeeds) ==
    IF rSeeds = <<>> THEN <<>>
    ELSE LET i == CHOOSE i \in 1..Len(rSeeds) :
                      /\ \A j \in 1..Len(rSeeds) : ~NwSeedLess(rSeeds[j], rSeeds[i])
                      /\ \A j \in 1..(i - 1) : NwSeedLess(rSeeds[i], rSeeds[j])
         IN  <<rSeeds[i]>>
             \o NwSorted([k \in 1..(Len(rSeeds) - 1) |->
                            IF k < i THEN rSeeds[k] ELSE rSeeds[k + 1]])

\* the body of the loop over the seeds for seed rSeed
NwSeedStep(st, pQuery, pRef, beginRef, rSeed) ==
    LET nw == needlemanWunsch(pQuery, pRef, st.endOfLastSeedQuery, start(rSeed),
                              st.endOfLastSeedReference,
                              AsNucSeqIndex(start_ref(rSeed) - beginRef))
        ovQ == IF start(rSeed) > st.endOfLastSeedQuery THEN 0
               ELSE AsNucSeqIndex(st.endOfLastSeedQuery - start(rSeed))
        ovR == IF start_ref(rSeed) > AsNucSeqIndex(st.endOfLastSeedReference + beginRef)
               THEN 0
               ELSE AsNucSeqIndex(st.endOfLastSeedReference
                                  - AsNucSeqIndex(start_ref(rSeed) - beginRef))
        len == rSeed.iSize
        overlap == Max(ovQ, ovR)
        a1 == st.pRet \o nw.columns
        a2 == IF len > overlap THEN AppendRun(a1, "match", len - overlap) ELSE a1
        a3 == IF ovQ > ovR THEN AppendRun(a2, "deletion", ovQ - ovR) ELSE a2
        a4 == IF ovR > ovQ THEN AppendRun(a3, "insertion", ovR - ovQ) ELSE a3
    IN  [ bDefined |-> st.bDefined /\ nw.bDefined,
          pRet |-> a4,
          endOfLastSeedQuery |->
              IF end(rSeed) > st.endOfLastSeedQuery THEN end(rSeed)
              ELSE st.endOfLastSeedQuery,
          endOfLastSeedReference |->
              IF end_ref(rSeed) > AsNucSeqIndex(st.endOfLastSeedReference + beginRef)
              THEN AsNucSeqIndex(end_ref(rSeed) - beginRef)
              ELSE st.endOfLastSeedReference ]

RECURSIVE NwSeedLoop(_, _, _, _, _, _)
NwSeedLoop(st, pQuery, pRef, beginRef, pSeeds, k) ==
    IF k > Len(pSeeds) \/ ~st.bDefined THEN st
    ELSE NwSeedLoop(NwSeedStep(st, pQuery, pRef, beginRef, pSeeds[k]),
                    pQuery, pRef, beginRef, pSeeds, k + 1)

\* NeedlemanWunsch::execute on a strip with at least one seed; pReference is
\* the forward strand of the pack, of which the window
\* [ beginRef, endRef ) is extracted
NeedlemanWunschOf(rSeeds, pQuery, pReference) ==
    LET pSeeds == NwSorted(rSeeds)
        beginQuery == start(pSeeds[1])
        beginRef == IF start_ref(pSeeds[1]) > beginQuery * 2
                    THEN start_ref(pSeeds[1]) - beginQuery * 2 ELSE 0
        endQuery == end(Back(pSeeds))
        reach == AsNucSeqIndex(end_ref(Back(pSeeds))
                               + AsNucSeqIndex(Len(pQuery) - endQuery) * 2)
        endRef == IF reach < Len(pReference) THEN reach ELSE Len(pReference)
        bWindow == beginRef <= endRef
        pRef == IF bWindow THEN SubSeq(pReference, beginRef + 1, endRef) ELSE <<>>
        st0 == [ bDefined |-> bWindow, pRet |-> <<>>,
                 endOfLastSeedQuery |-> 0, endOfLastSeedReference |-> 0 ]
        st == NwSeedLoop(st0, pQuery, pRef, beginRef, pSeeds, 1)
        nw == needlemanWunsch(pQuery, pRef, st.endOfLastSeedQuery, Len(pQuery),
                              st.endOfLastSeedReference,
                              AsNucSeqIndex(endRef - beginRef))
    IN  [ op |-> "needlemanWunsch",
          bDefined |-> st.bDefined /\ nw.bDefined,
          pSeeds |-> pSeeds,
          uiBeginOnRef |-> beginRef,
          uiEndOnRef |-> endRef,
          uiQueryLength |-> Len(pQuery),
          pRet |-> IF st.bDefined /\ nw.bDefined THEN st.pRet \o nw.columns ELSE <<>> ]

MaxNwSeeds == 2
NwQuery == <<0, 1, 1>>
NwReference == <<1, 0, 1, 1, 2>>

\* the seeds of the query on the forward strand of the reference
NwSeeds ==
    { Seed(q, l, r, TRUE) :
        q \in 0..(Len(NwQuery) - 1), l \in 1..Len(NwQuery), r \in 0..(Len(NwReference) - 1) }
    \cap { s \in [ bDummy : {FALSE}, iStart : 0..Len(NwQuery), iSize : 1..Len(NwQuery),
                   uiPosOnReference : 0..Len(NwReference), bOnForwStrand : {TRUE} ] :
             /\ end(s) <= Len(NwQuery)
             /\ end_ref(s) <= Len(NwReference) }

InitNW ==
    /\ pack = RefPack
    /\ appended = <<>>
    /\ res = NoResult
    /\ files = NoFiles
    /\ bAssert = FALSE
    /\ seeds \in UNION { [1..n -> NwSeeds] : n \in 1..MaxNwSeeds }
    /\ stack = <<>>
    /\ log = <<>>
    /\ bDoDummyJumps = FALSE
    /\ NoAlignment
    /\ NoObjects

\* execute sorts the list of the seeds of the strip in place and computes
\* the alignment
NeedlemanWunschExecute ==
    /\ res = NoResult
    /\ res' = NeedlemanWunschOf(seeds, NwQuery, NwReference)
    /\ seeds' = NwSorted(seeds)
    /\ UNCHANGED <<packVars, stack, log, bDoDummyJumps, alnVars, objVars>>

NextNW == NeedlemanWunschExecute

SpecNW == InitNW /\ [][NextNW]_vars

\* the number of columns of the alignment of the given types
ColumnsOfType(pAlignment, types) ==
    Cardinality({k \in 1..Len(pAlignment) : pAlignment[k] \in types})

\* C24: in every alignment that execute returns the columns that consume a
\* query symbol (match, mismatch, seed, insertion) add up to the length of
\* the query and the columns that consume a reference symbol (match,
\* mismatch, seed, deletion) add up to uiEndOnRef - uiBeginOnRef.
C24_RunLengthsCoverQueryAndReference ==
    (res.op = "needlemanWunsch" /\ res.bDefined) =>
        /\ ColumnsOfType(res.pRet, {"match", "missmatch", "insertion"}) = res.uiQueryLength
        /\ ColumnsOfType(res.pRet, {"match", "missmatch", "deletion"})
               = res.uiEndOnRef - res.uiBeginOnRef

\* the same for strips in which every seed starts, on query and reference,
\* at or after the end of the seed before it
C24_RunLengthsOfChainedSeeds ==
    (/\ res.op = "needlemanWunsch"
     /\ res.bDefined
     /\ \A k \in 1..(Len(res.pSeeds) - 1) :
            /\ end(res.pSeeds[k]) <= start(res.pSeeds[k + 1])
            /\ end_ref(res.pSeeds[k]) <= start_ref(res.pSeeds[k + 1])) =>
        /\ ColumnsOfType(res.pRet, {"match", "missmatch", "insertion"}) = res.uiQueryLength
        /\ ColumnsOfType(res.pRet, {"match", "missmatch", "deletion"})
               = res.uiEndOnRef - res.uiBeginOnRef

\* ---------------------------------------------------------------------
\* Contigs by strand-aware id (fileReader.h, ...WithIdOrReverse)
\* ---------------------------------------------------------------------

\* Pack::endOfSequenceWithIdOrReverse
endOfSequenceWithIdOrReverse(P, iSequenceId) ==
    IF iSequenceId % 2 = 1
    THEN uiPositionToReverseStrand(P, startOfSequenceWithId(P, iSequenceId \div 2)) - 1
    ELSE endOfSequenceWithId(P, iSequenceId \div 2)

\* Pack::startOfSequenceWithIdOrReverse
startOfSequenceWithIdOrReverse(P, iSequenceId) ==
    IF iSequenceId % 2 = 1
    THEN uiPositionToReverseStrand(P, endOfSequenceWithId(P, iSequenceId \div 2)) + 1
    ELSE startOfSequenceWithId(P, iSequenceId \div 2)

\* Pack::vExtractContig
vExtractContig(P, iId) ==
    vExtractSubsectionN(P, startOfSequenceWithIdOrReverse(P, iId),
                        endOfSequenceWithIdOrReverse(P, iId))

\* a call of vExtractContig with the id of a contig on one of the strands
ExtractContig(iId) ==
    /\ res = NoResult
    /\ res' = [op |-> "extractContig", iId |-> iId,
               uiStart |-> startOfSequenceWithIdOrReverse(pack, iId),
               uiEnd |-> endOfSequenceWithIdOrReverse(pack, iId),
               out |-> vExtractContig(pack, iId)]
    /\ UNCHANGED <<pack, appended, files, bAssert, svVars, alnVars, objVars>>

NextContig ==
    \/ \E seq \in AppendableSequences : AppendSequence(<<"A">>, <<>>, seq)
    \/ \E iId \in 0 .. (2 * Len(pack.xVectorOfSequenceDescriptors) - 1) : ExtractContig(iId)
    \/ Return

SpecContig == Init /\ [][NextContig]_vars

\* the reverse complement of a sequence in which ambiguous symbols are the
\* code 4, which is its own complement
ReverseComplementWithN(seq) ==
    [i \in 1..Len(seq) |->
        IF seq[Len(seq) + 1 - i] >= 4 THEN 4 ELSE 3 - seq[Len(seq) + 1 - i]]

\* the positions of the pack that lie in the contig with the given
\* strand-aware id
PositionsWithId(P, iId) ==
    {p \in 0 .. (uiUnpackedSizeForwardPlusReverse(P) - 1) :
        uiSequenceIdForPositionOrRev(P, p) = iId}

\* C25: for every strand-aware id, [start( id ), end( id )) is the set of
\* the positions whose strand-aware id is id, and vExtractContig( id )
\* returns the whole contig: the appended sequence for an even id, its
\* reverse complement for an odd id.
C25_ContigIntervalAndExtraction ==
    res.op = "extractContig" =>
        /\ PositionsWithId(pack, res.iId) = res.uiStart .. (res.uiEnd - 1)
        /\ res.out.status = "ok"
        /\ res.out.seq = IF res.iId % 2 = 0
                         THEN WithN(appended[res.iId \div 2 + 1])
                         ELSE ReverseComplementWithN(appended[res.iId \div 2 + 1])

\* the same for the ids of the forward strand only
C25_ForwardContigs ==
    (res.op = "extractContig" /\ res.iId % 2 = 0) =>
        /\ PositionsWithId(pack, res.iId) = res.uiStart .. (res.uiEnd - 1)
        /\ res.out.status = "ok"
        /\ res.out.seq = WithN(appended[res.iId \div 2 + 1])

\* on the reverse strand the interval begins with the contig and ends two
\* positions before the end of the contig
C25_ReverseContigsEndTwoEarly ==
    (res.op = "extractContig" /\ res.iId % 2 = 1) =>
        LET S == PositionsWithId(pack, res.iId)
        IN  /\ res.uiStart = CHOOSE p \in S : \A q \in S : p <= q
            /\ res.uiEnd + 2 = (CHOOSE p \in S : \A q \in S : q <= p) + 1

\* ---------------------------------------------------------------------
\* Clipping of a bridging interval (fileReader.h, unBridgeSubsection)
\* ---------------------------------------------------------------------

\* Pack::bridgingSubsection( uiBegin, uiSize )
bridgingSubsection(P, uiBegin, uiSize) ==
    IF uiSize > 0
    THEN \/ bPositionIsOnReversStrand(P, uiBegin)
              # bPositionIsOnReversStrand(P, (uiBegin + uiSize) - 1)
         \/ uiSequenceIdForPositionOrRev(P, uiBegin)
              # uiSequenceIdForPositionOrRev(P, (uiBegin + uiSize) - 1)
    ELSE FALSE

\* Pack::unBridgeSubsection( uiBegin, uiSize ): the values of the two
\* reference parameters at the return, and whether assert( uiBegin <=
\* uiSplit ) holds (the release build does not test it)
unBridgeSubsection(P, uiBegin, uiSize) ==
    LET startId == uiSequenceIdForPositionOrRev(P, uiBegin)
        uiSplit == endOfSequenceWithIdOrReverse(P, startId)
    IN  IF uiBegin + uiSize \div 2 > uiSplit
        THEN [ uiBegin |-> uiSplit,
               uiSize |-> AsNucSeqIndex(uiSize + uiBegin - uiSplit),
               bAsserted |-> uiBegin <= uiSplit ]
        ELSE [ uiBegin |-> uiBegin,
               uiSize |-> AsNucSeqIndex(uiSplit - uiBegin),
               bAsserted |-> uiBegin <= uiSplit ]

\* a call of unBridgeSubsection with an interval that meets the two
\* conditions the function asserts at its entry
UnBridgeSubsection(uiBegin, uiSize) ==
    /\ res = NoResult
    /\ pack.xVectorOfSequenceDescriptors # <<>>
    /\ uiBegin + uiSize < uiUnpackedSizeForwardPlusReverse(pack)
    /\ bridgingSubsection(pack, uiBegin, uiSize)
    /\ res' = [op |-> "unBridge", uiBegin |-> uiBegin, uiSize |-> uiSize,
               out |-> unBridgeSubsection(pack, uiBegin, uiSize)]
    /\ UNCHANGED <<pack, appended, files, bAssert, svVars, alnVars, objVars>>

NextUnBridge ==
    \/ \E seq \in AppendableSequences : AppendSequence(<<"A">>, <<>>, seq)
    \/ \E b \in 0 .. (uiUnpackedSizeForwardPlusReverse(pack) - 1),
          s \in 1 .. uiUnpackedSizeForwardPlusReverse(pack) : UnBridgeSubsection(b, s)
    \/ Return

SpecUnBridge == Init /\ [][NextUnBridge]_vars

\* the intervals within [ uiBegin, uiBegin + uiSize ) that are not empty
\* and lie within one contig on one strand
NonBridgingWithin(P, uiBegin, uiSize) ==
    {iv \in (uiBegin .. (uiBegin + uiSize - 1)) \X (1 .. uiSize) :
        /\ iv[1] + iv[2] <= uiBegin + uiSize
        /\ ~bridgingSubsection(P, iv[1], iv[2])}

\* C26: unBridgeSubsection replaces every bridging interval of the address
\* space by one of its sub-intervals that lies within one contig on one
\* strand, and no such sub-interval is larger.
C26_LargestNonBridgingSubInterval ==
    res.op = "unBridge" =>
        /\ <<res.out.uiBegin, res.out.uiSize>>
               \in NonBridgingWithin(pack, res.uiBegin, res.uiSize)
        /\ \A iv \in NonBridgingWithin(pack, res.uiBegin, res.uiSize) :
               iv[2] <= res.out.uiSize

\* for an interval that begins on the forward strand the result is one of
\* its sub-intervals and begins where the interval begins or where the
\* contig of its first position ends
C26_ForwardIsSubInterval ==
    (res.op = "unBridge" /\ ~bPositionIsOnReversStrand(pack, res.uiBegin)) =>
        /\ res.out.bAsserted
        /\ res.out.uiBegin >= res.uiBegin
        /\ res.out.uiBegin + res.out.uiSize <= res.uiBegin + res.uiSize
        /\ res.out.uiBegin \in
               {res.uiBegin,
                endOfSequenceWithId(pack, uiSequenceIdForPosition(pack, res.uiBegin))}

\* ---------------------------------------------------------------------
\* A read without seeds: the pair ( dummy, dummy ) (part_000:440-447)
\* ---------------------------------------------------------------------

\* a read of which no seed is left after the filters
InitDummy ==
    /\ pack = RefPack
    /\ appended = <<>>
    /\ res = NoResult
    /\ files = NoFiles
    /\ bAssert = FALSE
    /\ seeds = <<>>
    /\ stack = <<>>
    /\ log = <<>>
    /\ bDoDummyJumps \in BOOLEAN
    /\ NoAlignment
    /\ shared \in Modules({"part_000"})
    /\ threads = <<>>
    /\ nucSeq = NoNucSeq
    /\ uiLastEnd = 0

NextDummy ==
    \/ ExecuteHelper
    \/ NestedCallBegins
    \/ CallReturns
    \/ ReseedFindsSeeds
    \/ \E bValidForward \in BOOLEAN, bValidBackward \in BOOLEAN :
          ReseedFindsNothing(bValidForward, bValidBackward)

SpecDummy == InitDummy /\ [][NextDummy]_vars

\* the call of makeJumpsByReseedingRecursive for the pair ( dummy, dummy )
\* is the frame of layer 1
IsDummyPair(frame) == frame.uiLayer = 1 /\ frame.rLast.bDummy /\ frame.rNext.bDummy

\* C27: for a read with no seeds the two rectangles of the pair
\* ( dummy, dummy ) are empty, whatever the fields of the sentinel hold, no
\* region of the reference is reseeded and no jump is emitted.
C27_DummyPairGivesNothing ==
    /\ \A i \in 1..Len(stack) :
          IsDummyPair(stack[i]) =>
              /\ RectanglesOfCall(stack[i]) = EmptyRectangles
              /\ \A d \in DummySeedValues :
                     getPositionsForSeeds(pack, iMaxSizeReseed, d, d, 0, QueryLength)
                         = RectanglesOfCall(stack[i])
              /\ stack[i].pc = "call"
    /\ SizeOfRet = 0

\* with dummy jumps switched on the call for ( dummy, dummy ) itself, when
\* its reseeding finds nothing, appends no jump
C27_NoDummyJumpForDummyPair ==
    (bDoDummyJumps /\ log # <<>> /\ log[1].rLast.bDummy /\ log[1].rNext.bDummy) =>
        log[1].jumps = <<>>

\* ---------------------------------------------------------------------
\* Collecting the strips without overlap (soc.h, push_back_no_overlap)
\* ---------------------------------------------------------------------

MaxOffered == 3
PushStarts == {0, 1, 2}
PushWidths == {0, 1}
PushScores ==
    [uiAccumulativeLength : AccumulativeLengths, uiSeedAmbiguity : SeedAmbiguities]

\* the element of vMaxima for a strip: the score and the iterator of the
\* strip, which is the number of the call that offered it
MaximaEntry(rCurrScore, itStrip) ==
    [ uiAccumulativeLength |-> rCurrScore.uiAccumulativeLength,
      uiSeedAmbiguity |-> rCurrScore.uiSeedAmbiguity,
      itStrip |-> itStrip ]

\* a queue that keeps the last strip when the new one is saved
PushBackKeepingLast(xMaxima, uiEnd, rCurrScore, itStrip, uiCurrStart, uiCurrEnd) ==
    IF xMaxima = <<>> \/ uiEnd < uiCurrStart \/ SoCOrderLess(Back(xMaxima), rCurrScore)
    THEN [ vMaxima |-> Append(xMaxima, MaximaEntry(rCurrScore, itStrip)),
           uiLastEnd |-> uiCurrEnd ]
    ELSE [ vMaxima |-> xMaxima, uiLastEnd |-> uiEnd ]

\* a queue that saves every strip, replacing the last one when they overlap
PushBackWithoutScore(xMaxima, uiEnd, rCurrScore, itStrip, uiCurrStart, uiCurrEnd) ==
    [ vMaxima |-> Append(IF xMaxima # <<>> /\ uiEnd >= uiCurrStart
                         THEN SubSeq(xMaxima, 1, Len(xMaxima) - 1) ELSE xMaxima,
                         MaximaEntry(rCurrScore, itStrip)),
      uiLastEnd |-> uiCurrEnd ]

\* SoCPriorityQueue::push_back_no_overlap on the members vMaxima and
\* uiLastEnd: their values at the return
PushBackNoOverlap(xMaxima, uiEnd, rCurrScore, itStrip, uiCurrStart, uiCurrEnd) ==
    IF xMaxima = <<>> \/ uiEnd < uiCurrStart \/ SoCOrderLess(Back(xMaxima), rCurrScore)
    THEN [ vMaxima |-> Append(IF xMaxima # <<>> /\ uiEnd >= uiCurrStart
                              THEN SubSeq(xMaxima, 1, Len(xMaxima) - 1) ELSE xMaxima,
                              MaximaEntry(rCurrScore, itStrip)),
           uiLastEnd |-> uiCurrEnd ]
    ELSE [ vMaxima |-> xMaxima, uiLastEnd |-> uiEnd ]

\* the queue as constructed; log is the list of the strips offered so far
InitPush ==
    /\ pack = RefPack
    /\ appended = <<>>
    /\ res = NoResult
    /\ files = NoFiles
    /\ bAssert = FALSE
    /\ seeds = <<>>
    /\ stack = <<>>
    /\ log = <<>>
    /\ bDoDummyJumps = FALSE
    /\ NoAlignment
    /\ NoObjects

\* a call of push_back_no_overlap; the strips are offered in the order of
\* their starts.  Each offered strip is noted with the strip it was given
\* up for: uiLostTo is 0 while the strip is in the queue.
push_back_no_overlap(rCurrScore, uiCurrStart, uiCurrEnd) ==
    /\ Len(log) < MaxOffered
    /\ log # <<>> => Back(log).uiCurrStart <= uiCurrStart
    /\ LET itStrip == Len(log) + 1
           q == PushBackNoOverlap(vMaxima, uiLastEnd, rCurrScore, itStrip,
                                  uiCurrStart, uiCurrEnd)
           kept == {q.vMaxima[i].itStrip : i \in 1..Len(q.vMaxima)}
           offer == [ rCurrScore |-> rCurrScore, uiCurrStart |-> uiCurrStart,
                      uiCurrEnd |-> uiCurrEnd,
                      uiLostTo |-> IF itStrip \in kept THEN 0 ELSE Back(vMaxima).itStrip ]
       IN  /\ vMaxima' = q.vMaxima
           /\ uiLastEnd' = q.uiLastEnd
           /\ log' = Append([i \in 1..Len(log) |->
                                IF log[i].uiLostTo = 0 /\ i \notin kept
                                THEN [log[i] EXCEPT !.uiLostTo = itStrip] ELSE log[i]],
                            offer)
    /\ UNCHANGED <<packVars, res, seeds, stack, bDoDummyJumps, pSegments,
                   uiMaxAmbiguitySv, harm, shared, threads, nucSeq>>

NextPush ==
    \E rCurrScore \in PushScores, uiCurrStart \in PushStarts, w \in PushWidths :
        push_back_no_overlap(rCurrScore, uiCurrStart, uiCurrStart + w)

SpecPush == InitPush /\ [][NextPush]_vars

\* the numbers of the strips that are in the queue
Retained == {vMaxima[i].itStrip : i \in 1..Len(vMaxima)}

\* two strips overlap when neither starts behind the end of the other
StripsOverlap(xA, xB) ==
    xA.uiCurrStart <= xB.uiCurrEnd /\ xB.uiCurrStart <= xA.uiCurrEnd

\* the order of xA is not lower than that of xB: it has the greater
\* accumulative length, or the same length and no greater ambiguity
OrderNotLower(xA, xB) ==
    \/ xA.uiAccumulativeLength > xB.uiAccumulativeLength
    \/ /\ xA.uiAccumulativeLength = xB.uiAccumulativeLength
       /\ xA.uiSeedAmbiguity <= xB.uiSeedAmbiguity

\* C28 as stated: every offered strip that is not in the queue overlaps a
\* strip of the queue whose order is not lower than its own.
C28_DiscardedOverlapsRetained ==
    \A i \in 1..Len(log) :
        i \notin Retained =>
            \E j \in Retained :
                /\ StripsOverlap(log[i], log[j])
                /\ OrderNotLower(log[j].rCurrScore, log[i].rCurrScore)

\* C28: every offered strip that is not in the queue was given up for a
\* strip that overlaps it, that was in the queue at that moment and whose
\* order is not lower; that strip is in the queue or was given up in the
\* same way, and the queue holds a strip whose order is not lower than
\* that of the discarded one.
C28_DiscardedForOverlappingStrip ==
    \A i \in 1..Len(log) :
        /\ (i \in Retained) = (log[i].uiLostTo = 0)
        /\ i \notin Retained =>
              /\ log[i].uiLostTo \in 1..Len(log)
              /\ StripsOverlap(log[i], log[log[i].uiLostTo])
              /\ OrderNotLower(log[log[i].uiLostTo].rCurrScore, log[i].rCurrScore)
              /\ \E j \in Retained : OrderNotLower(log[j].rCurrScore, log[i].rCurrScore)

\* a strip was replaced by a strip that was replaced itself by a third one
\* that does not overlap the first
C28_Witness ==
    /\ Len(log) = 3
    /\ Retained = {3}
    /\ log[1].uiLostTo = 2
    /\ log[2].uiLostTo = 3
    /\ ~StripsOverlap(log[1], log[3])

\* C29: no two strips of the queue overlap: each strip of the queue starts
\* behind the end of the strip before it in the queue.
C29_RetainedStripsDisjoint ==
    /\ \A i \in 2..Len(vMaxima) :
          log[vMaxima[i].itStrip].uiCurrStart > log[vMaxima[i - 1].itStrip].uiCurrEnd
    /\ vMaxima # <<>> => uiLastEnd = log[Back(vMaxima).itStrip].uiCurrEnd

\* the queue holds two strips of which the second has replaced a strip that
\* overlapped it
C29_Witness ==
    /\ Len(vMaxima) = 2
    /\ Len(log) = 3
    /\ log[2].uiLostTo = 3
    /\ Retained = {1, 3}

\* ---------------------------------------------------------------------
\* NucSeq (part_001).  pxSequenceRef holds the cells of the buffer that the
\* pointer of the object points to; xPointer tells whether the pointer is
\* NULL, points to a buffer, points to memory that was freed (the buffer
\* has no cells then), or points to a buffer that realloc has returned for
\* a pointer that was freed: the allocator still has that block among its
\* free blocks.  An access to a cell through the NULL pointer ends
\* the process.  An access to a cell that a buffer does not have leaves the
\* cells of the buffer as they are; a read of such a cell gives any symbol.
\* ---------------------------------------------------------------------

MaxNucSeqSize == 3
NucSeqSymbols == {0, 1}

\* kroundup32( x ): the least power of two that is not less than x, and 0
\* for 0
kroundup32(x) ==
    IF x = 0 THEN 0
    ELSE Pow2(CHOOSE k \in 0..31 : Pow2(k) >= x /\ (k = 0 \/ Pow2(k - 1) < x))

\* NucSeq::vResetProtectedAttributes
vResetProtectedAttributes(xSeq) == NoNucSeq

\* NucSeq::vReleaseMemory: free( ) of a pointer that was freed before, or
\* of the block that realloc has returned for such a pointer, ends the
\* process or goes unnoticed
vReleaseMemory(xSeq, bCrash) ==
    IF xSeq.xPointer = "NULL" THEN [seq |-> xSeq, status |-> "ok"]
    ELSE IF xSeq.xPointer \in {"freed", "reallocated"} /\ bCrash THEN [seq |-> xSeq, status |-> "abort"]
    ELSE [seq |-> [xSeq EXCEPT !.pxSequenceRef = <<>>, !.xPointer = "freed"],
          status |-> "ok"]

\* NucSeq::vReserveMemory.  realloc keeps the cells that the buffer had and
\* gives the new cells the content xNewCells, which is any content;
\* realloc( p, 0 ) frees p and returns NULL, realloc( NULL, 0 ) returns a
\* buffer without cells; realloc of a pointer that was freed ends the
\* process (bCrash) or returns a block with any content that the allocator
\* keeps among its free blocks.  The exception is thrown before a member is
\* assigned.
vReserveMemory(xSeq, uxRequestedSize, xNewCells, bCrash) ==
    LET uxRounded == kroundup32(uxRequestedSize)
        uxOld == Len(xSeq.pxSequenceRef)
    IN  IF xSeq.xPointer \in {"freed", "reallocated"} /\ bCrash
        THEN [seq |-> xSeq, status |-> "abort"]
        ELSE IF uxRounded = 0 /\ xSeq.xPointer # "NULL"
        THEN [seq |-> [xSeq EXCEPT !.pxSequenceRef = <<>>, !.xPointer = "freed"],
              status |-> "exception"]
        ELSE [seq |-> [xSeq EXCEPT
                        !.pxSequenceRef =
                            [i \in 1..uxRounded |->
                                IF i <= uxOld THEN xSeq.pxSequenceRef[i]
                                ELSE xNewCells[i - uxOld]],
                        !.xPointer = IF xSeq.xPointer \in {"freed", "reallocated"} THEN "reallocated" ELSE "buffer",
                        !.uxCapacity = uxRounded],
              status |-> "ok"]

\* the contents that the cells can have which a call of vReserveMemory adds
NewCells(xSeq, uxRequestedSize) ==
    [1 .. Max(0, kroundup32(uxRequestedSize) - Len(xSeq.pxSequenceRef)) -> NucSeqSymbols]

\* pxSequenceRef[ i ] = x for the C++ index i
WriteCell(xCells, i, x) ==
    IF i < Len(xCells) THEN [xCells EXCEPT ![i + 1] = x] ELSE xCells

\* the contents that the cells with the C++ indices below uiEnd can have
\* which the buffer does not have
OutsideCells(xSeq, uiEnd) ==
    [(Len(xSeq.pxSequenceRef) + 1) .. uiEnd -> NucSeqSymbols]

\* NucSeq::push_back: the cell that is written has the C++ index
\* uiSize + 1; a write behind the buffer is reported in bWroteOutside
push_back(xSeq, xElement, xNewCells, bCrash) ==
    LET r == IF xSeq.uiSize >= xSeq.uxCapacity
             THEN vReserveMemory(xSeq, xSeq.uiSize + 1, xNewCells, bCrash)
             ELSE [seq |-> xSeq, status |-> "ok"]
    IN  IF r.status # "ok"
        THEN [seq |-> r.seq, status |-> r.status, bWroteOutside |-> FALSE]
        ELSE [seq |-> [r.seq EXCEPT
                        !.pxSequenceRef = WriteCell(@, xSeq.uiSize + 1, xElement),
                        !.uiSize = xSeq.uiSize + 1],
              status |-> "ok",
              bWroteOutside |-> xSeq.uiSize + 1 >= Len(r.seq.pxSequenceRef)]

\* NucSeq::vAppend( const uint8_t*, size_t )
vAppend(xSeq, pSequence, xNewCells, bCrash) ==
    LET uxRequestedSize == Len(pSequence) + xSeq.uiSize
        r == IF xSeq.uxCapacity < uxRequestedSize
             THEN vReserveMemory(xSeq, uxRequestedSize, xNewCells, bCrash)
             ELSE [seq |-> xSeq, status |-> "ok"]
    IN  IF r.status # "ok"
        THEN [seq |-> r.seq, status |-> r.status, bWroteOutside |-> FALSE]
        ELSE [seq |-> [r.seq EXCEPT
                        !.pxSequenceRef =
                            [i \in 1..Len(r.seq.pxSequenceRef) |->
                                IF i > xSeq.uiSize /\ i <= uxRequestedSize
                                THEN pSequence[i - xSeq.uiSize]
                                ELSE r.seq.pxSequenceRef[i]],
                        !.uiSize = uxRequestedSize],
              status |-> "ok",
              bWroteOutside |-> uxRequestedSize > Len(r.seq.pxSequenceRef)]

\* NucSeq::resize: the cells that the sequence gains keep the content they
\* have
resize(xSeq, uiRequestedSize, xNewCells, bCrash) ==
    LET r == IF xSeq.uxCapacity < uiRequestedSize
             THEN vReserveMemory(xSeq, uiRequestedSize, xNewCells, bCrash)
             ELSE [seq |-> xSeq, status |-> "ok"]
    IN  IF r.status # "ok" THEN r
        ELSE [seq |-> [r.seq EXCEPT !.uiSize = uiRequestedSize], status |-> "ok"]

\* NucSeq::vClear: the sequence is empty and keeps its buffer
vClear(xSeq) == [xSeq EXCEPT !.uiSize = 0]

\* uint8_t& NucSeq::operator[]( size_t ) with an assignment of xValue to the
\* reference; the assertion is part of the debug build.  Without the
\* assertion the reference of a sequence that has no buffer yet is
\* NULL + uiSubscript, and the assignment to it ends the process.
operatorSubscript(xSeq, uiSubscript, xValue, bAssertions) ==
    IF bAssertions /\ ~(uiSubscript < xSeq.uiSize)
    THEN [seq |-> xSeq, status |-> "abort", bOutside |-> FALSE]
    ELSE IF xSeq.xPointer = "NULL"
    THEN [seq |-> xSeq, status |-> "abort", bOutside |-> TRUE]
    ELSE [seq |-> [xSeq EXCEPT !.pxSequenceRef = WriteCell(@, uiSubscript, xValue)],
          status |-> "ok",
          bOutside |-> uiSubscript >= Len(xSeq.pxSequenceRef)]

\* reverse( word + uiFrom, length ): cell i of the word gets the content of
\* cell length - i - 1; xOutside is the content of the cells that the
\* buffer does not have
reverse(xCells, uiFrom, length, xOutside) ==
    [k \in 1..Len(xCells) |->
        LET i == k - 1 - uiFrom
            m == uiFrom + (length - i - 1) + 1
        IN  IF i < 0 \/ i >= length THEN xCells[k]
            ELSE IF m <= Len(xCells) THEN xCells[m]
            ELSE xOutside[m]]

\* NucSeq::vReverse( ); reverse swaps cells when the length is 2 or more
vReverse(xSeq, xOutside) ==
    IF xSeq.xPointer = "NULL" /\ xSeq.uiSize >= 2
    THEN [seq |-> xSeq, status |-> "abort", bOutside |-> TRUE]
    ELSE
    [seq |-> [xSeq EXCEPT !.pxSequenceRef = reverse(@, 0, xSeq.uiSize, xOutside)],
     status |-> "ok",
     bOutside |-> xSeq.uiSize >= 2 /\ xSeq.uiSize > Len(xSeq.pxSequenceRef)]

\* NucSeq::vReverse( uiFrom, uiTo ): uiTo - uiFrom is a size_t, with
\* uiTo < uiFrom the loop runs over the address space until the process
\* ends; on a sequence that has no buffer yet the first swap goes through
\* NULL + uiFrom and ends the process
vReverseRange(xSeq, uiFrom, uiTo, xOutside) ==
    IF uiTo < uiFrom THEN [seq |-> xSeq, status |-> "abort", bOutside |-> TRUE]
    ELSE IF xSeq.xPointer = "NULL" /\ uiTo - uiFrom >= 2
    THEN [seq |-> xSeq, status |-> "abort", bOutside |-> TRUE]
    ELSE [seq |-> [xSeq EXCEPT
                     !.pxSequenceRef = reverse(@, uiFrom, uiTo - uiFrom, xOutside)],
          status |-> "ok",
          bOutside |-> uiTo - uiFrom >= 2 /\ uiTo > Len(xSeq.pxSequenceRef)]

\* NucSeq::nucleotideComplement for the values of a char that are not
\* negative
nucleotideComplement(iNucleotide) ==
    IF iNucleotide < 4 THEN 3 - iNucleotide ELSE 5

\* NucSeq::translateACGTCodeToCharacter: the codes of 'A', 'C', 'G', 'T' and
\* of 'N'
translateACGTCodeToCharacter(uiNucleotideCode) ==
    IF uiNucleotideCode < 4 THEN <<65, 67, 71, 84>>[uiNucleotideCode + 1] ELSE 78

\* a table of 256 entries as a caller of vTranslateToNumericFormUsingTable
\* passes it: upper and lower case letters of the four nucleotides give
\* their code, all other characters give 4
AcgtTable ==
    [c \in 0..255 |->
        IF c \in {65, 97} THEN 0
        ELSE IF c \in {67, 99} THEN 1
        ELSE IF c \in {71, 103} THEN 2
        ELSE IF c \in {84, 116} THEN 3
        ELSE 4]

\* the cells with the C++ indices uxStartIndex .. uiSize - 1 that the buffer
\* has are replaced by what the function Op( _ ) gives for them
MapCells(xSeq, uxStartIndex, Op(_)) ==
    IF xSeq.xPointer = "NULL" /\ xSeq.uiSize > uxStartIndex
    THEN [seq |-> xSeq, status |-> "abort", bOutside |-> TRUE]
    ELSE
    [seq |-> [xSeq EXCEPT
                !.pxSequenceRef =
                    [k \in 1..Len(xSeq.pxSequenceRef) |->
                        IF k > uxStartIndex /\ k <= xSeq.uiSize
                        THEN Op(xSeq.pxSequenceRef[k])
                        ELSE xSeq.pxSequenceRef[k]]],
     status |-> "ok",
     bOutside |-> xSeq.uiSize > uxStartIndex /\ xSeq.uiSize > Len(xSeq.pxSequenceRef)]

\* NucSeq::vSwitchAllBasePairsToComplement
vSwitchAllBasePairsToComplement(xSeq) == MapCells(xSeq, 0, nucleotideComplement)

\* NucSeq::vTranslateToCharacterForm( uxStartIndex )
vTranslateToCharacterForm(xSeq, uxStartIndex) ==
    MapCells(xSeq, uxStartIndex, translateACGTCodeToCharacter)

\* NucSeq::vTranslateToNumericFormUsingTable
vTranslateToNumericFormUsingTable(xSeq, alphabetTranslationTable, uxStartIndex) ==
    LET Entry(c) == alphabetTranslationTable[c]
    IN  MapCells(xSeq, uxStartIndex, Entry)

\* NucSeq::vTransferOwnership: the receiver gets the pointer and the sizes,
\* the sequence forgets them
vTransferOwnership(xSeq) ==
    [seq |-> vResetProtectedAttributes(xSeq), rReceivingSequence |-> xSeq]

InitNucSeq ==
    /\ pack = RefPack
    /\ appended = <<>>
    /\ res = NoResult
    /\ files = NoFiles
    /\ bAssert \in BOOLEAN
    /\ NoSvJumpsFromSeeds

NucSeqFrame ==
    UNCHANGED <<pack, files, bAssert, svVars, alnVars, shared, threads, uiLastEnd>>

\* the process has not ended
Running == res.op # "abort"

\* the result of a call that has ended the process or has thrown
Failed(sCall, sStatus) == [op |-> sStatus, call |-> sCall]

\* since the sequence was made or emptied, no other calls than push_back and
\* vAppend have changed it
AppendsOnly ==
    \/ res.op \in {"none", "vResetProtectedAttributes", "vTransferOwnership",
                    "NucSeq( NucSeq& )"}
    \/ res.op \in {"push_back", "vAppend", "vClear"} /\ res.bAppendsOnly

\* a call of push_back; appended holds the symbols that push_back and
\* vAppend were given since the sequence was made or emptied, and the calls
\* are made as long as it has room
PushBack(xElement) ==
    /\ Running
    /\ nucSeq.uiSize < MaxNucSeqSize
    /\ Len(appended) < MaxNucSeqSize
    /\ \E xNewCells \in NewCells(nucSeq, nucSeq.uiSize + 1), bCrash \in BOOLEAN :
          LET r == push_back(nucSeq, xElement, xNewCells, bCrash)
          IN  /\ nucSeq' = r.seq
              /\ res' = IF r.status = "ok"
                        THEN [op |-> "push_back", xElement |-> xElement,
                              before |-> nucSeq, bWroteOutside |-> r.bWroteOutside,
                              bAppendsOnly |-> AppendsOnly]
                        ELSE Failed("push_back", r.status)
              /\ appended' = IF r.status = "ok" THEN Append(appended, xElement)
                             ELSE appended
    /\ NucSeqFrame

\* a call of vAppend
AppendSymbols(pSequence) ==
    /\ Running
    /\ nucSeq.uiSize + Len(pSequence) <= MaxNucSeqSize
    /\ Len(appended) + Len(pSequence) <= MaxNucSeqSize
    /\ \E xNewCells \in NewCells(nucSeq, nucSeq.uiSize + Len(pSequence)),
          bCrash \in BOOLEAN :
          LET r == vAppend(nucSeq, pSequence, xNewCells, bCrash)
          IN  /\ nucSeq' = r.seq
              /\ res' = IF r.status = "ok"
                        THEN [op |-> "vAppend", pSequence |-> pSequence,
                              before |-> nucSeq, bWroteOutside |-> r.bWroteOutside,
                              bAppendsOnly |-> AppendsOnly]
                        ELSE Failed("vAppend", r.status)
              /\ appended' = IF r.status = "ok" THEN appended \o pSequence
                             ELSE appended
    /\ NucSeqFrame

\* a call of vClear
Clear ==
    /\ Running
    /\ nucSeq' = vClear(nucSeq)
    /\ res' = [op |-> "vClear", bAppendsOnly |-> AppendsOnly]
    /\ appended' = <<>>
    /\ NucSeqFrame

\* the step of a call that changes the sequence without appending to it
ChangeNucSeq(sCall, r) ==
    /\ nucSeq' = r.seq
    /\ res' = IF r.status = "ok" THEN [op |-> sCall] ELSE Failed(sCall, r.status)
    /\ UNCHANGED appended
    /\ NucSeqFrame

\* a call of vReserveMemory
ReserveMemory(uxRequestedSize) ==
    /\ Running
    /\ \E xNewCells \in NewCells(nucSeq, uxRequestedSize), bCrash \in BOOLEAN :
          ChangeNucSeq("vReserveMemory",
                       vReserveMemory(nucSeq, uxRequestedSize, xNewCells, bCrash))

\* a call of vReleaseMemory
ReleaseMemory ==
    /\ Running
    /\ \E bCrash \in BOOLEAN :
          ChangeNucSeq("vReleaseMemory", vReleaseMemory(nucSeq, bCrash))

\* a call of resize
Resize(uiRequestedSize) ==
    /\ Running
    /\ \E xNewCells \in NewCells(nucSeq, uiRequestedSize), bCrash \in BOOLEAN :
          ChangeNucSeq("resize", resize(nucSeq, uiRequestedSize, xNewCells, bCrash))

\* an assignment to an element: s[ uiSubscript ] = xValue
OperatorSubscript(uiSubscript, xValue) ==
    /\ Running
    /\ ChangeNucSeq("operator[]", operatorSubscript(nucSeq, uiSubscript, xValue, bAssert))

\* a call of vReverse( )
Reverse ==
    /\ Running
    /\ \E xOutside \in OutsideCells(nucSeq, nucSeq.uiSize) :
          ChangeNucSeq("vReverse", vReverse(nucSeq, xOutside))

\* a call of vReverse( uiFrom, uiTo )
ReverseRange(uiFrom, uiTo) ==
    /\ Running
    /\ \E xOutside \in OutsideCells(nucSeq, uiTo) :
          ChangeNucSeq("vReverse", vReverseRange(nucSeq, uiFrom, uiTo, xOutside))

\* a call of vSwitchAllBasePairsToComplement
SwitchAllBasePairsToComplement ==
    /\ Running
    /\ ChangeNucSeq("vSwitchAllBasePairsToComplement",
                    vSwitchAllBasePairsToComplement(nucSeq))

\* a call of vTranslateToCharacterForm
TranslateToCharacterForm(uxStartIndex) ==
    /\ Running
    /\ ChangeNucSeq("vTranslateToCharacterForm",
                    vTranslateToCharacterForm(nucSeq, uxStartIndex))

\* a call of vTranslateToNumericFormUsingTable
TranslateToNumericFormUsingTable(uxStartIndex) ==
    /\ Running
    /\ ChangeNucSeq("vTranslateToNumericFormUsingTable",
                    vTranslateToNumericFormUsingTable(nucSeq, AcgtTable, uxStartIndex))

\* a call of vTransferOwnership, and NucSeq( NucSeq& ) with the sequence as
\* its argument: the sequence is left as vResetProtectedAttributes leaves it
TransferOwnership(sCall) ==
    /\ Running
    /\ nucSeq' = vTransferOwnership(nucSeq).seq
    /\ res' = [op |-> sCall]
    /\ appended' = <<>>
    /\ NucSeqFrame

\* a call of vResetProtectedAttributes
ResetProtectedAttributes ==
    /\ Running
    /\ nucSeq' = vResetProtectedAttributes(nucSeq)
    /\ res' = [op |-> "vResetProtectedAttributes"]
    /\ appended' = <<>>
    /\ NucSeqFrame

NextNucSeq ==
    \/ \E xElement \in NucSeqSymbols : PushBack(xElement)
    \/ \E pSequence \in UNION { [1..n -> NucSeqSymbols] : n \in 1..MaxNucSeqSize } :
          AppendSymbols(pSequence)
    \/ Clear
    \/ \E n \in 0..MaxNucSeqSize : ReserveMemory(n)
    \/ ReleaseMemory
    \/ \E n \in 0..MaxNucSeqSize : Resize(n)
    \/ \E i \in 0..(MaxNucSeqSize - 1), x \in NucSeqSymbols : OperatorSubscript(i, x)
    \/ Reverse
    \/ \E uiFrom \in 0..MaxNucSeqSize, uiTo \in 0..MaxNucSeqSize :
          ReverseRange(uiFrom, uiTo)
    \/ \E sCall \in {"vTransferOwnership", "NucSeq( NucSeq& )"} : TransferOwnership(sCall)
    \/ ResetProtectedAttributes

SpecNucSeq == InitNucSeq /\ [][NextNucSeq]_vars

\* the calls that replace the symbols of a sequence by other symbols, on
\* the sequences that vAppend builds
NextNucSeqSymbols ==
    \/ \E pSequence \in UNION { [1..n -> NucSeqSymbols] : n \in 1..MaxNucSeqSize } :
          AppendSymbols(pSequence)
    \/ Clear
    \/ Reverse
    \/ SwitchAllBasePairsToComplement
    \/ \E uxStartIndex \in 0..1 : TranslateToCharacterForm(uxStartIndex)
    \/ \E uxStartIndex \in 0..1 : TranslateToNumericFormUsingTable(uxStartIndex)

SpecNucSeqSymbols == InitNucSeq /\ [][NextNucSeqSymbols]_vars

\* the symbols of the sequence: the first uiSize cells, as far as the buffer
\* has them
Content(xSeq) == SubSeq(xSeq.pxSequenceRef, 1, Min(xSeq.uiSize, Len(xSeq.pxSequenceRef)))

\* the pointer was not freed and the cells of the sequence are cells of its
\* buffer
InItsBuffer(xSeq) ==
    xSeq.xPointer \notin {"freed", "reallocated"} /\ xSeq.uiSize <= Len(xSeq.pxSequenceRef)

\* C30: after push_back( x ) on a sequence of length n the length is n + 1,
\* element n is x, the elements before it are unchanged and nothing was
\* written outside the buffer; and a sequence that was built by calls of
\* push_back and vAppend holds the symbols it was given, as it does after
\* one vAppend of them.
C30_PushBackAppendsSymbol ==
    /\ (res.op = "push_back" /\ InItsBuffer(res.before)) =>
          /\ nucSeq.uiSize = res.before.uiSize + 1
          /\ nucSeq.uiSize <= nucSeq.uxCapacity
          /\ ~res.bWroteOutside
          /\ nucSeq.pxSequenceRef[nucSeq.uiSize] = res.xElement
          /\ \A i \in 1..res.before.uiSize :
                nucSeq.pxSequenceRef[i] = res.before.pxSequenceRef[i]
    /\ (res.op \in {"push_back", "vAppend"} /\ res.bAppendsOnly) =>
          Content(nucSeq) = appended

\* vAppend appends the symbols it is given behind those of the sequence
C30_AppendAppendsSymbols ==
    (res.op = "vAppend" /\ InItsBuffer(res.before)) =>
        /\ nucSeq.uiSize = res.before.uiSize + Len(res.pSequence)
        /\ nucSeq.uiSize <= nucSeq.uxCapacity
        /\ ~res.bWroteOutside
        /\ Content(nucSeq) = Content(res.before) \o res.pSequence

\* push_back sets the length and keeps the elements before element n
C30_PushBackKeepsEarlierSymbols ==
    (res.op = "push_back" /\ InItsBuffer(res.before)) =>
        /\ nucSeq.uiSize = res.before.uiSize + 1
        /\ nucSeq.uiSize <= nucSeq.uxCapacity
        /\ \A i \in 1..res.before.uiSize :
              nucSeq.pxSequenceRef[i] = res.before.pxSequenceRef[i]

====
